---------------------------- MODULE Spec2Model ----------------------------
(***************************************************************************)
(* Duplication-detection subsystem of the dataset duplication alert        *)
(* system: SimilarityAnalysisService (pure scoring functions) and          *)
(* DuplicationDetectionService (dataset registry + alert log).             *)
(*                                                                         *)
(* Numbers.  The scores are JavaScript numbers; they are modelled as exact *)
(* non-negative rationals [n |-> numerator, d |-> denominator] in lowest   *)
(* terms.  Math.sqrt is modelled exactly: the feature vectors the model    *)
(* submits all have an integer magnitude, so the square root is exact in   *)
(* the program too.                                                        *)
(* Where the magnitude is not an integer the rounding of Math.sqrt, * and  *)
(* / decides the score, and the scores are computed in IEEE 754 binary64   *)
(* (calculateSimilarityMetrics64).                                         *)
(*                                                                         *)
(* Strings.  Titles and descriptions are sequences of one-character        *)
(* strings, so toLowerCase and split(/\s+/) are modelled by what they do.  *)
(*                                                                         *)
(* Time.  The clock counts whole days; new Date() reads it.                *)
(***************************************************************************)
EXTENDS Integers, Sequences, FiniteSets, TLC

VARIABLES
    datasets,   \* DuplicationDetectionService.datasets: Map in insertion order
    alerts,     \* DuplicationDetectionService.alerts: the alert log
    now,        \* the wall clock read by new Date(), in days
    last,       \* the last service call: its arguments and the value returned
    nAdds,      \* number of addDataset calls so far
    pruned,     \* history: clearOldAlerts has removed an alert
    requests,   \* the POST requests of the route: each handler's position and locals
    running,    \* the request whose handler the event loop is running, 0 for none
    order,      \* history: the service calls of the route in the order they took effect
    repository  \* MetadataRepository: its metadata, searchIndex and facetIndex maps

vars == <<datasets, alerts, now, last, nAdds, pruned, requests, running, order, repository>>

---------------------------------------------------------------------------
(* Bounds of the model *)

MaxAdds == 3       \* addDataset calls per behaviour
MaxTime == 1       \* the clock runs over 0..MaxTime
MaxDays == 1       \* olderThanDays ranges over 0..MaxDays
Grid == 4          \* scores and cutoffs of the classifier range over k/Grid
MaxSize == 3       \* the sizes of the datasets compared with themselves: 1..MaxSize
MaxRows == 3       \* their row counts: 0..MaxRows
MaxRequests == 2   \* POST requests per behaviour
MaxColumns == 2    \* properties of a schema object
MaxChunks == 4     \* chunks of a list given to generateMerkleRoot

---------------------------------------------------------------------------
(* Exact rational arithmetic for the scores *)

RECURSIVE GCD(_, _)
GCD(a, b) == IF b = 0 THEN a ELSE GCD(b, a % b)

Rat(n, d) == LET g == GCD(n, d) IN [n |-> n \div g, d |-> d \div g]

Zero == [n |-> 0, d |-> 1]
One == [n |-> 1, d |-> 1]

RAdd(p, q) == Rat(p.n * q.d + q.n * p.d, p.d * q.d)
RDivInt(p, k) == Rat(p.n, p.d * k)
RGeq(p, q) == p.n * q.d >= q.n * p.d
RLess(p, q) == p.n * q.d < q.n * p.d

\* Math.sqrt on the perfect squares the model's feature vectors produce
Sqrt(n) == CHOOSE r \in 0..n : r * r = n

RECURSIVE SumSeq(_)
SumSeq(s) == IF s = <<>> THEN 0 ELSE Head(s) + SumSeq(Tail(s))

SeqToSet(s) == {s[i] : i \in 1..Len(s)}

---------------------------------------------------------------------------
(* SimilarityAnalysisService *)

\* mutant: the intersection is divided by the size of the first set
calculateJaccardSimilarity_OverFirst(set1, set2) ==
    LET intersection == {x \in set1 : x \in set2}
        union == set1 \cup set2
    IN  IF Cardinality(union) = 0 \/ Cardinality(set1) = 0 THEN Zero
        ELSE Rat(Cardinality(intersection), Cardinality(set1))

calculateJaccardSimilarity(set1, set2) ==
    LET intersection == {x \in set1 : x \in set2}
        union == set1 \cup set2
    IN  IF Cardinality(union) = 0 THEN Zero
        ELSE Rat(Cardinality(intersection), Cardinality(union))

calculateCosineSimilarity(vector1, vector2) ==
    IF Len(vector1) # Len(vector2) THEN Zero
    ELSE LET dotProduct == SumSeq([i \in 1..Len(vector1) |-> vector1[i] * vector2[i]])
             magnitude1 == Sqrt(SumSeq([i \in 1..Len(vector1) |-> vector1[i] * vector1[i]]))
             magnitude2 == Sqrt(SumSeq([i \in 1..Len(vector2) |-> vector2[i] * vector2[i]]))
         IN  IF magnitude1 = 0 \/ magnitude2 = 0 THEN Zero
             ELSE Rat(dotProduct, magnitude1 * magnitude2)

\* mutant: with no common column the type-match term is 1
calculateStructuralSimilarity_VacuousTypes(schema1, schema2) ==
    LET keys1 == DOMAIN schema1
        keys2 == DOMAIN schema2
        commonKeys == {x \in keys1 : x \in keys2}
        allKeys == keys1 \cup keys2
        typeMatches == Cardinality({key \in commonKeys : schema1[key] = schema2[key]})
    IN  IF Cardinality(allKeys) = 0 THEN One
        ELSE LET keysSimilarity == Rat(Cardinality(commonKeys), Cardinality(allKeys))
                 typesSimilarity == IF Cardinality(commonKeys) = 0 THEN One
                                    ELSE Rat(typeMatches, Cardinality(commonKeys))
             IN  RDivInt(RAdd(keysSimilarity, typesSimilarity), 2)

\* a schema (Record<string, string>) is a function from column names to types
calculateStructuralSimilarity(schema1, schema2) ==
    LET keys1 == DOMAIN schema1
        keys2 == DOMAIN schema2
        commonKeys == {x \in keys1 : x \in keys2}
        allKeys == keys1 \cup keys2
        typeMatches == Cardinality({key \in commonKeys : schema1[key] = schema2[key]})
    IN  IF Cardinality(allKeys) = 0 THEN One
        ELSE LET keysSimilarity == Rat(Cardinality(commonKeys), Cardinality(allKeys))
                 typesSimilarity == IF Cardinality(commonKeys) = 0 THEN Zero
                                    ELSE Rat(typeMatches, Cardinality(commonKeys))
             IN  RDivInt(RAdd(keysSimilarity, typesSimilarity), 2)

extractFeatureVector(dataset) ==
    << dataset.size,
       dataset.metadata.columnCount,
       dataset.metadata.rowCount,
       dataset.metadata.provenance.quality.completeness,
       dataset.metadata.provenance.quality.consistency,
       dataset.metadata.provenance.quality.accuracy,
       dataset.metadata.provenance.quality.freshness,
       dataset.metadata.provenance.quality.validity >>

\* String.prototype.toLowerCase on the model's alphabet
LowerChar(c) == CASE c = "A" -> "a" [] c = "B" -> "b" [] c = "C" -> "c" [] OTHER -> c

toLowerCase(s) == [i \in 1..Len(s) |-> LowerChar(s[i])]

IsSpace(c) == c \in {" ", "\t", "\n"}

\* String.prototype.split(/\s+/): cut at every maximal run of white space;
\* a leading or trailing run leaves an empty first or last piece
RECURSIVE SplitFrom(_, _, _, _, _)
SplitFrom(s, i, cur, acc, inSep) ==
    IF i > Len(s) THEN Append(acc, cur)
    ELSE IF IsSpace(s[i])
         THEN IF inSep THEN SplitFrom(s, i + 1, cur, acc, TRUE)
              ELSE SplitFrom(s, i + 1, <<>>, Append(acc, cur), TRUE)
         ELSE SplitFrom(s, i + 1, Append(cur, s[i]), acc, FALSE)

\* mutant: the empty pieces are dropped
splitWhitespace_DropEmpty(s) == SelectSeq(SplitFrom(s, 1, <<>>, <<>>, FALSE), LAMBDA piece : piece # <<>>)

splitWhitespace(s) == SplitFrom(s, 1, <<>>, <<>>, FALSE)

calculateSemanticSimilarity(dataset1, dataset2) ==
    LET text1 == toLowerCase(dataset1.metadata.title \o <<" ">> \o dataset1.metadata.description)
        text2 == toLowerCase(dataset2.metadata.title \o <<" ">> \o dataset2.metadata.description)
        words1 == SeqToSet(splitWhitespace(text1))
        words2 == SeqToSet(splitWhitespace(text2))
    IN  calculateJaccardSimilarity(words1, words2)

calculateSimilarityMetrics(dataset1, dataset2) ==
    LET columns1 == DOMAIN dataset1.metadata.dataTypes
        columns2 == DOMAIN dataset2.metadata.dataTypes
        jaccard == calculateJaccardSimilarity(columns1, columns2)
        structural == calculateStructuralSimilarity(dataset1.metadata.dataTypes,
                                                    dataset2.metadata.dataTypes)
        features1 == extractFeatureVector(dataset1)
        features2 == extractFeatureVector(dataset2)
        cosine == calculateCosineSimilarity(features1, features2)
        semantic == calculateSemanticSimilarity(dataset1, dataset2)
        confidence == RDivInt(RAdd(RAdd(RAdd(jaccard, structural), cosine), semantic), 4)
    IN  [jaccard |-> jaccard, cosine |-> cosine, structural |-> structural,
         semantic |-> semantic, confidence |-> confidence]

\* the default thresholds 0.95 / 0.8 / 0.6
DefaultThresholds ==
    [exact |-> Rat(95, 100), similar |-> Rat(8, 10), potential |-> Rat(6, 10)]

\* mutant: the lowest tier compares with > instead of >=
isDuplicate_Strict(similarity, thresholds) ==
    IF RGeq(similarity.confidence, thresholds.exact) THEN "exact"
    ELSE IF RGeq(similarity.confidence, thresholds.similar) THEN "similar"
    ELSE IF RLess(thresholds.potential, similarity.confidence) THEN "potential"
    ELSE "none"

\* mutant: the similar tier is tested before the exact tier
isDuplicate_SimilarFirst(similarity, thresholds) ==
    IF RGeq(similarity.confidence, thresholds.similar) THEN "similar"
    ELSE IF RGeq(similarity.confidence, thresholds.exact) THEN "exact"
    ELSE IF RGeq(similarity.confidence, thresholds.potential) THEN "potential"
    ELSE "none"

\* mutant: the exact tier compares with <= instead of >=
isDuplicate_FlippedExact(similarity, thresholds) ==
    IF RGeq(thresholds.exact, similarity.confidence) THEN "exact"
    ELSE IF RGeq(similarity.confidence, thresholds.similar) THEN "similar"
    ELSE IF RGeq(similarity.confidence, thresholds.potential) THEN "potential"
    ELSE "none"

isDuplicate(similarity, thresholds) ==
    IF RGeq(similarity.confidence, thresholds.exact) THEN "exact"
    ELSE IF RGeq(similarity.confidence, thresholds.similar) THEN "similar"
    ELSE IF RGeq(similarity.confidence, thresholds.potential) THEN "potential"
    ELSE "none"

---------------------------------------------------------------------------
(* The datasets submitted to the service *)

NoQuality == [completeness |-> 0, consistency |-> 0, accuracy |-> 0,
              freshness |-> 0, validity |-> 0]
SomeQuality == [completeness |-> 1, consistency |-> 1, accuracy |-> 1,
                freshness |-> 1, validity |-> 0]

MkDataset(id, contentHash, schemaHash, size, columnCount, rowCount, quality, title, description, dataTypes) ==
    [id |-> id,
     size |-> size,
     fingerprint |-> [contentHash |-> contentHash, schemaHash |-> schemaHash],
     metadata |-> [title |-> title, description |-> description,
                   columnCount |-> columnCount, rowCount |-> rowCount,
                   dataTypes |-> dataTypes,
                   provenance |-> [quality |-> quality]]]

SchemaIdName == ("id" :> "number") @@ ("name" :> "string")
SchemaIdNameNum == ("id" :> "number") @@ ("name" :> "number")
SchemaPrice == ("price" :> "number")

\* "base": the reference dataset.
\* "sameHashes": equal content and schema hash, every metric 0 against base.
\* "sameMetrics": another content hash, every metric 1 against base.
\* "similar": confidence 131/144 against base.
\* "potential": confidence exactly 3/5 against base.
\* "disjoint": no column in common with base, confidence 17/36.
DatasetOf(id, profile) ==
    CASE profile = "base" ->
           MkDataset(id, "c1", "s1", 2, 2, 1, NoQuality,
                     <<"A">>, <<"b", " ", "c">>, SchemaIdName)
      [] profile = "sameHashes" ->
           MkDataset(id, "c1", "s1", 0, 0, 0, SomeQuality,
                     <<"x">>, <<>>, SchemaPrice)
      [] profile = "sameMetrics" ->
           MkDataset(id, "c2", "s1", 2, 2, 1, NoQuality,
                     <<"a">>, <<"b", " ", " ", "c">>, SchemaIdName)
      [] profile = "similar" ->
           MkDataset(id, "c3", "s2", 1, 2, 2, NoQuality,
                     <<"a">>, <<"b", "\t", "c">>, SchemaIdNameNum)
      [] profile = "potential" ->
           MkDataset(id, "c4", "s1", 0, 0, 0, SomeQuality,
                     <<"a">>, <<"B", " ", "d", " ", "e">>, SchemaIdName)
      [] profile = "disjoint" ->
           MkDataset(id, "c5", "s3", 1, 2, 2, NoQuality,
                     <<"a">>, <<"b", " ", "c">>, SchemaPrice)

Ids == {"d1", "d2", "d3"}

\* the submissions the model makes: three ids, two versions of each
DatasetPool ==
    {DatasetOf("d1", "base"), DatasetOf("d1", "disjoint"),
     DatasetOf("d2", "sameHashes"), DatasetOf("d2", "similar"),
     DatasetOf("d3", "sameMetrics"), DatasetOf("d3", "potential")}

---------------------------------------------------------------------------
(* DuplicationDetectionService *)

\* Map.prototype.set: a new key goes to the end of the iteration order, an
\* existing key keeps its place and gets the new value
MapSet(map, dataset) ==
    IF \E i \in 1..Len(map) : map[i].id = dataset.id
    THEN [i \in 1..Len(map) |-> IF map[i].id = dataset.id THEN dataset ELSE map[i]]
    ELSE Append(map, dataset)

isExactMatch(dataset1, dataset2) ==
    /\ dataset1.fingerprint.contentHash = dataset2.fingerprint.contentHash
    /\ dataset1.fingerprint.schemaHash = dataset2.fingerprint.schemaHash

\* (confidence * 100).toFixed(1), as a number of tenths of a percent
percentTenths(confidence) ==
    (2 * 1000 * confidence.n + confidence.d) \div (2 * confidence.d)

generateRecommendation(type, similarity) ==
    CASE type = "exact" -> [template |-> "exact", percent |-> 0]
      [] type = "similar" ->
           [template |-> "similar", percent |-> percentTenths(similarity.confidence)]
      [] type = "potential" ->
           [template |-> "potential", percent |-> percentTenths(similarity.confidence)]
      [] OTHER -> [template |-> "default", percent |-> 0]

\* mutant: the two datasets of the alert change places
createAlert_SwappedRoles(newDataset, existingDataset, type, confidence, t) ==
    LET similarity == calculateSimilarityMetrics(newDataset, existingDataset)
    IN  [type |-> type,
         confidence |-> confidence,
         originalDataset |-> newDataset,
         duplicateDataset |-> existingDataset,
         similarities |-> similarity,
         recommendation |-> generateRecommendation(type, similarity),
         createdAt |-> t]

\* mutant: the stored metrics carry the alert's confidence
createAlert_OverrideConfidence(newDataset, existingDataset, type, confidence, t) ==
    LET similarity == calculateSimilarityMetrics(newDataset, existingDataset)
    IN  [type |-> type,
         confidence |-> confidence,
         originalDataset |-> existingDataset,
         duplicateDataset |-> newDataset,
         similarities |-> [similarity EXCEPT !.confidence = confidence],
         recommendation |-> generateRecommendation(type, similarity),
         createdAt |-> t]

\* the alert createAlert pushes; its random id label is left out
createAlert(newDataset, existingDataset, type, confidence, t) ==
    LET similarity == calculateSimilarityMetrics(newDataset, existingDataset)
    IN  [type |-> type,
         confidence |-> confidence,
         originalDataset |-> existingDataset,
         duplicateDataset |-> newDataset,
         similarities |-> similarity,
         recommendation |-> generateRecommendation(type, similarity),
         createdAt |-> t]

\* mutant: no exact-match shortcut, every pair goes through the metrics
compareWith_NoShortcut(newDataset, existingDataset, t) ==
    LET similarity == calculateSimilarityMetrics(newDataset, existingDataset)
        duplicationType == isDuplicate(similarity, DefaultThresholds)
    IN  IF duplicationType # "none"
        THEN << createAlert(newDataset, existingDataset, duplicationType,
                            similarity.confidence, t) >>
        ELSE << >>

\* the body of the loop of checkForDuplicates for one existing dataset other
\* than the new one: the alerts it pushes
compareWith(newDataset, existingDataset, t) ==
    IF isExactMatch(newDataset, existingDataset)
    THEN << createAlert(newDataset, existingDataset, "exact", One, t) >>
    ELSE LET similarity == calculateSimilarityMetrics(newDataset, existingDataset)
             duplicationType == isDuplicate(similarity, DefaultThresholds)
         IN  IF duplicationType # "none"
             THEN << createAlert(newDataset, existingDataset, duplicationType,
                                 similarity.confidence, t) >>
             ELSE << >>

\* mutant: the loop does not skip the new dataset's own entry
RECURSIVE checkForDuplicatesFrom_NoSkip(_, _, _, _, _)
checkForDuplicatesFrom_NoSkip(newDataset, map, i, acc, t) ==
    IF i > Len(map) THEN acc
    ELSE checkForDuplicatesFrom_NoSkip(newDataset, map, i + 1,
             [alerts |-> acc.alerts \o compareWith(newDataset, map[i], t),
              compared |-> Append(acc.compared, map[i].id)], t)

\* mutant: the loop ends at the first exact match (break for continue)
RECURSIVE checkForDuplicatesFrom_Break(_, _, _, _, _)
checkForDuplicatesFrom_Break(newDataset, map, i, acc, t) ==
    IF i > Len(map) THEN acc
    ELSE IF map[i].id = newDataset.id
         THEN checkForDuplicatesFrom_Break(newDataset, map, i + 1, acc, t)
         ELSE LET next == [alerts |-> acc.alerts \o compareWith(newDataset, map[i], t),
                           compared |-> Append(acc.compared, map[i].id)]
              IN  IF isExactMatch(newDataset, map[i]) THEN next
                  ELSE checkForDuplicatesFrom_Break(newDataset, map, i + 1, next, t)

\* the loop of checkForDuplicates from position i of the registry on; acc is
\* the alert log so far and the ids compared so far
RECURSIVE checkForDuplicatesFrom(_, _, _, _, _)
checkForDuplicatesFrom(newDataset, map, i, acc, t) ==
    IF i > Len(map) THEN acc
    ELSE IF map[i].id = newDataset.id
         THEN checkForDuplicatesFrom(newDataset, map, i + 1, acc, t)
         ELSE checkForDuplicatesFrom(newDataset, map, i + 1,
                  [alerts |-> acc.alerts \o compareWith(newDataset, map[i], t),
                   compared |-> Append(acc.compared, map[i].id)], t)

\* mutant: the scan starts a fresh log instead of pushing onto the old one
checkForDuplicates_FreshLog(newDataset, map, log, t) ==
    checkForDuplicatesFrom(newDataset, map, 1, [alerts |-> <<>>, compared |-> <<>>], t)

checkForDuplicates(newDataset, map, log, t) ==
    checkForDuplicatesFrom(newDataset, map, 1, [alerts |-> log, compared |-> <<>>], t)

NoDataset == [id |-> ""]

\* MetadataRepository after construction: three empty Maps.  A Map is the
\* function from its keys to their values
EmptyRepository == [metadata |-> <<>>, searchIndex |-> <<>>, facetIndex |-> <<>>]

\* the record kept of the call just made: base is the length of the alert
\* log when the call began, known tells whether the id of the dataset passed
\* was registered already
Call(op, dataset, arg, compared, result) ==
    [op |-> op, dataset |-> dataset, arg |-> arg, compared |-> compared,
     ret |-> result, base |-> Len(alerts),
     known |-> \E i \in 1..Len(datasets) : datasets[i].id = dataset.id]

Idle == [op |-> "idle", dataset |-> NoDataset, arg |-> 0, compared |-> <<>>,
         ret |-> <<>>, base |-> 0, known |-> FALSE]

Init ==
    /\ datasets = <<>>
    /\ alerts = <<>>
    /\ now = 0
    /\ last = Idle
    /\ nAdds = 0
    /\ pruned = FALSE
    /\ requests = <<>>
    /\ running = 0
    /\ order = <<>>
    /\ repository = EmptyRepository

addDataset(dataset) ==
    /\ nAdds < MaxAdds
    /\ LET map == MapSet(datasets, dataset)
           scan == checkForDuplicates(dataset, map, alerts, now)
       IN  /\ datasets' = map
           /\ alerts' = scan.alerts
           /\ last' = Call("addDataset", dataset, 0, scan.compared, <<>>)
    /\ nAdds' = nAdds + 1
    /\ UNCHANGED <<now, pruned, requests, running, order, repository>>

getAlerts ==
    /\ last' = Call("getAlerts", NoDataset, 0, <<>>, alerts)
    /\ UNCHANGED <<datasets, alerts, now, nAdds, pruned, requests, running, order, repository>>

\* mutant: only the alerts where the id is the original dataset's
getAlertsForDataset_OriginalOnly(datasetId) ==
    /\ last' = Call("getAlertsForDataset", NoDataset, datasetId, <<>>,
                    SelectSeq(alerts, LAMBDA alert :
                        alert.originalDataset.id = datasetId))
    /\ UNCHANGED <<datasets, alerts, now, nAdds, pruned, requests, running, order, repository>>

\* mutant: an id that is not registered gets the whole log
getAlertsForDataset_AllWhenUnknown(datasetId) ==
    /\ last' = Call("getAlertsForDataset", NoDataset, datasetId, <<>>,
                    IF \E i \in 1..Len(datasets) : datasets[i].id = datasetId
                    THEN SelectSeq(alerts, LAMBDA alert :
                            \/ alert.originalDataset.id = datasetId
                            \/ alert.duplicateDataset.id = datasetId)
                    ELSE alerts)
    /\ UNCHANGED <<datasets, alerts, now, nAdds, pruned, requests, running, order, repository>>

getAlertsForDataset(datasetId) ==
    /\ last' = Call("getAlertsForDataset", NoDataset, datasetId, <<>>,
                    SelectSeq(alerts, LAMBDA alert :
                        \/ alert.originalDataset.id = datasetId
                        \/ alert.duplicateDataset.id = datasetId))
    /\ UNCHANGED <<datasets, alerts, now, nAdds, pruned, requests, running, order, repository>>

\* mutant: an alert created exactly at the cutoff is kept
clearOldAlertsFilter_Inclusive(alert, cutoffDate) == alert.createdAt >= cutoffDate

\* mutant: exact alerts are never pruned
clearOldAlertsFilter_KeepExact(alert, cutoffDate) ==
    alert.createdAt > cutoffDate \/ alert.type = "exact"

\* the filter of clearOldAlerts: the alerts it keeps
clearOldAlertsFilter(alert, cutoffDate) == alert.createdAt > cutoffDate

clearOldAlerts(olderThanDays) ==
    /\ LET cutoffDate == now - olderThanDays
           kept == SelectSeq(alerts, LAMBDA alert : clearOldAlertsFilter(alert, cutoffDate))
       IN  /\ alerts' = kept
           /\ pruned' = (pruned \/ Len(kept) < Len(alerts))
    /\ last' = Call("clearOldAlerts", NoDataset, olderThanDays, <<>>, <<>>)
    /\ UNCHANGED <<datasets, now, nAdds, requests, running, order, repository>>

\* time passes between calls
Tick ==
    /\ now < MaxTime
    /\ now' = now + 1
    /\ last' = Idle
    /\ UNCHANGED <<datasets, alerts, nAdds, pruned, requests, running, order, repository>>

Next ==
    \/ \E dataset \in DatasetPool : addDataset(dataset)
    \/ getAlerts
    \/ \E datasetId \in Ids \cup {"unknown"} : getAlertsForDataset(datasetId)
    \/ \E olderThanDays \in 0..MaxDays : clearOldAlerts(olderThanDays)
    \/ Tick

Spec == Init /\ [][Next]_vars

---------------------------------------------------------------------------
(* The classifier alone: isDuplicate applied to every score and every      *)
(* triple of cutoffs of a grid, the default cutoffs included.  `last`      *)
(* holds the arguments drawn, then the call and the values returned.       *)

\* a call of a pure function: its arguments and the value returned
PureCall(op, arg, result) == [Idle EXCEPT !.op = op, !.arg = arg, !.ret = result]

Scores == {Rat(k, Grid) : k \in 0..Grid} \cup {DefaultThresholds.exact, DefaultThresholds.similar, DefaultThresholds.potential}

ThresholdSets == {DefaultThresholds} \cup [exact : {Rat(k, Grid) : k \in 0..Grid}, similar : {Rat(k, Grid) : k \in 0..Grid}, potential : {Rat(k, Grid) : k \in 0..Grid}]

\* two confidences classified under the same cutoffs
PairInputs == [c1 : Scores, c2 : Scores, thresholds : ThresholdSets]

\* one confidence classified before and after one cutoff is replaced
RaiseInputs == [c : Scores, thresholds : ThresholdSets, cutoff : {"exact", "similar", "potential"}, value : Scores]

InitClassify ==
    /\ datasets = <<>>
    /\ alerts = <<>>
    /\ now = 0
    /\ nAdds = 0
    /\ pruned = FALSE
    /\ requests = <<>>
    /\ running = 0
    /\ order = <<>>
    /\ repository = EmptyRepository
    /\ \/ last \in {PureCall("pair", x, <<>>) : x \in PairInputs}
       \/ last \in {PureCall("raise", x, <<>>) : x \in RaiseInputs}

Classify ==
    /\ last.op = "pair"
    /\ last' = PureCall("isDuplicate", last.arg,
                    [t1 |-> isDuplicate([confidence |-> last.arg.c1], last.arg.thresholds),
                     t2 |-> isDuplicate([confidence |-> last.arg.c2], last.arg.thresholds)])
    /\ UNCHANGED <<datasets, alerts, now, nAdds, pruned, requests, running, order, repository>>

\* the same confidence under the cutoffs given and with one cutoff raised
ClassifyRaised ==
    /\ last.op = "raise"
    /\ RGeq(last.arg.value, last.arg.thresholds[last.arg.cutoff])
    /\ LET raised == [last.arg.thresholds EXCEPT ![last.arg.cutoff] = last.arg.value]
       IN  last' = PureCall("isDuplicateRaised", last.arg,
                       [before |-> isDuplicate([confidence |-> last.arg.c], last.arg.thresholds),
                        after |-> isDuplicate([confidence |-> last.arg.c], raised)])
    /\ UNCHANGED <<datasets, alerts, now, nAdds, pruned, requests, running, order, repository>>

NextClassify ==
    \/ Classify
    \/ ClassifyRaised

SpecClassify == InitClassify /\ [][NextClassify]_vars

---------------------------------------------------------------------------
(* The scoring alone: calculateSimilarityMetrics and the comparison step   *)
(* of the scan applied to every ordered pair of a pool of datasets that    *)
(* includes the degenerate ones: no column, a zero feature vector, an      *)
(* empty title and description.                                            *)

SchemaNone == [key \in {} |-> ""]
SchemaId == ("id" :> "number")

MetricsSchemas == {SchemaNone, SchemaId, SchemaIdName, SchemaIdNameNum, SchemaPrice}

\* size, columnCount, rowCount and quality; every vector has an integer magnitude
MetricsFeatures == {<<2, 2, 1, NoQuality>>, <<1, 2, 2, NoQuality>>, <<0, 0, 0, NoQuality>>, <<0, 0, 0, SomeQuality>>}

\* title and description
MetricsTexts == {<< <<"A">>, <<"b", " ", "c">> >>, << <<"a">>, <<"B", " ", "d", " ", "e">> >>, << <<>>, <<>> >>}

MetricsPool(id) == {MkDataset(id, c, "s1", f[1], f[2], f[3], f[4], x[1], x[2], schema) : c \in {"c1", "c2"}, f \in MetricsFeatures, x \in MetricsTexts, schema \in MetricsSchemas}

InitMetrics ==
    /\ datasets = <<>>
    /\ alerts = <<>>
    /\ now = 0
    /\ nAdds = 0
    /\ pruned = FALSE
    /\ requests = <<>>
    /\ running = 0
    /\ order = <<>>
    /\ repository = EmptyRepository
    /\ last \in {PureCall("pair", [a |-> a, b |-> b], <<>>) : a \in MetricsPool("d1"), b \in MetricsPool("d2")}

\* the metrics of the pair in both orders, and the alerts the scan makes
\* for the pair when b is added after a (ab) and when a is added after b (ba)
Measure ==
    /\ last.op = "pair"
    /\ last' = PureCall("calculateSimilarityMetrics", last.arg,
                    [ab |-> calculateSimilarityMetrics(last.arg.a, last.arg.b),
                     ba |-> calculateSimilarityMetrics(last.arg.b, last.arg.a),
                     alertsAB |-> compareWith(last.arg.b, last.arg.a, 0),
                     alertsBA |-> compareWith(last.arg.a, last.arg.b, 0)])
    /\ UNCHANGED <<datasets, alerts, now, nAdds, pruned, requests, running, order, repository>>

NextMetrics == Measure

SpecMetrics == InitMetrics /\ [][NextMetrics]_vars

---------------------------------------------------------------------------
(* JavaScript numbers as IEEE 754 binary64, for the scores of feature      *)
(* vectors whose magnitude is not an integer.  A non-negative finite       *)
(* double is [m, e] with value m * 2^e and 2^52 <= m < 2^53 (m = 0 for     *)
(* zero); m is a natural number in limbs of 15 bits, lowest limb first.    *)
(* Every operation rounds its exact result to the nearest double, ties to  *)
(* even.                                                                   *)

LimbBase == 32768

RECURSIVE BNorm(_)
BNorm(a) == IF a = <<>> THEN a ELSE IF a[Len(a)] = 0 THEN BNorm(SubSeq(a, 1, Len(a) - 1)) ELSE a

RECURSIVE BFromInt(_)
BFromInt(n) == IF n = 0 THEN <<>> ELSE <<n % LimbBase>> \o BFromInt(n \div LimbBase)

Limb(a, i) == IF i <= Len(a) THEN a[i] ELSE 0

RECURSIVE BAddFrom(_, _, _, _)
BAddFrom(a, b, i, carry) ==
    IF i > Len(a) /\ i > Len(b) THEN (IF carry = 0 THEN <<>> ELSE <<carry>>)
    ELSE LET t == Limb(a, i) + Limb(b, i) + carry
         IN  <<t % LimbBase>> \o BAddFrom(a, b, i + 1, t \div LimbBase)

BAdd(a, b) == BAddFrom(a, b, 1, 0)

RECURSIVE BSubFrom(_, _, _, _)
BSubFrom(a, b, i, borrow) ==
    IF i > Len(a) THEN <<>>
    ELSE LET t == a[i] - Limb(b, i) - borrow
         IN  IF t < 0 THEN <<t + LimbBase>> \o BSubFrom(a, b, i + 1, 1)
             ELSE <<t>> \o BSubFrom(a, b, i + 1, 0)

BSub(a, b) == BNorm(BSubFrom(a, b, 1, 0))

RECURSIVE BGeqFrom(_, _, _)
BGeqFrom(a, b, i) ==
    IF i = 0 THEN TRUE
    ELSE IF a[i] # b[i] THEN a[i] > b[i]
    ELSE BGeqFrom(a, b, i - 1)

BGeq(a, b) == IF Len(a) # Len(b) THEN Len(a) > Len(b) ELSE BGeqFrom(a, b, Len(a))

RECURSIVE BMulLimbFrom(_, _, _, _)
BMulLimbFrom(a, k, i, carry) ==
    IF i > Len(a) THEN (IF carry = 0 THEN <<>> ELSE <<carry>>)
    ELSE LET t == a[i] * k + carry
         IN  <<t % LimbBase>> \o BMulLimbFrom(a, k, i + 1, t \div LimbBase)

RECURSIVE BMulFrom(_, _, _)
BMulFrom(a, b, j) ==
    IF j > Len(b) THEN <<>>
    ELSE BAdd(BMulLimbFrom(a, b[j], 1, 0), <<0>> \o BMulFrom(a, b, j + 1))

BMul(a, b) == BNorm(BMulFrom(a, b, 1))

BDouble(a) == BAdd(a, a)

RECURSIVE BHalfFrom(_, _, _)
BHalfFrom(a, i, carry) ==
    IF i = 0 THEN <<>>
    ELSE LET t == a[i] + carry * LimbBase
         IN  BHalfFrom(a, i - 1, t % 2) \o <<t \div 2>>

BHalf(a) == BNorm(BHalfFrom(a, Len(a), 0))

BOdd(a) == a # <<>> /\ a[1] % 2 = 1

RECURSIVE IntBitLen(_)
IntBitLen(n) == IF n = 0 THEN 0 ELSE 1 + IntBitLen(n \div 2)

BBitLen(a) == IF a = <<>> THEN 0 ELSE (Len(a) - 1) * 15 + IntBitLen(a[Len(a)])

RECURSIVE BShl(_, _)
BShl(a, k) ==
    IF k = 0 \/ a = <<>> THEN a
    ELSE IF k >= 15 THEN BShl(<<0>> \o a, k - 15)
    ELSE BShl(BDouble(a), k - 1)

DZero == [m |-> <<>>, e |-> 0]

\* shift right to 53 bits, a limb at a time and then a bit at a time; guard
\* is the last bit shifted out, sticky tells that a bit below it was 1
RECURSIVE RoundShift(_)
RoundShift(s) ==
    IF BBitLen(s.m) <= 53 THEN s
    ELSE IF BBitLen(s.m) >= 68
         THEN RoundShift([m |-> Tail(s.m), e |-> s.e + 15, guard |-> s.m[1] >= 16384,
                          sticky |-> s.sticky \/ s.guard \/ s.m[1] % 16384 # 0])
         ELSE RoundShift([m |-> BHalf(s.m), e |-> s.e + 1, guard |-> BOdd(s.m),
                          sticky |-> s.sticky \/ s.guard])

\* the double nearest to N * 2^e (ties to even); sticky: the exact value is
\* above N * 2^e by less than 2^e
\* a mantissa that rounding up carried to 54 bits is halved
Renormalise(m, e) == IF BBitLen(m) > 53 THEN [m |-> BHalf(m), e |-> e + 1] ELSE [m |-> m, e |-> e]

\* round the 53 bits kept: up when the part shifted out is above a half, or
\* is a half and the mantissa is odd
RoundNearestEven(s) == Renormalise(IF s.guard /\ (s.sticky \/ BOdd(s.m)) THEN BAdd(s.m, <<1>>) ELSE s.m, s.e)

ToDouble(N, e, sticky) ==
    IF N = <<>> THEN DZero
    ELSE IF BBitLen(N) < 53 THEN [m |-> BShl(N, 53 - BBitLen(N)), e |-> e - (53 - BBitLen(N))]
    ELSE RoundNearestEven(RoundShift([m |-> N, e |-> e, guard |-> FALSE, sticky |-> sticky]))

DFromInt(n) == ToDouble(BFromInt(n), 0, FALSE)

DOne == DFromInt(1)

DMul(x, y) == ToDouble(BMul(x.m, y.m), x.e + y.e, FALSE)

DAdd(x, y) ==
    IF x.m = <<>> THEN y
    ELSE IF y.m = <<>> THEN x
    ELSE LET e == IF x.e < y.e THEN x.e ELSE y.e
         IN  ToDouble(BAdd(BShl(x.m, x.e - e), BShl(y.m, y.e - e)), e, FALSE)

\* restoring division: after k steps s.q = floor(n * 2^(k-1) / d)
RECURSIVE DivSteps(_, _, _)
DivSteps(s, d, k) ==
    IF k = 0 THEN s
    ELSE IF BGeq(s.r, d) THEN DivSteps([q |-> BAdd(BDouble(s.q), <<1>>), r |-> BDouble(BSub(s.r, d))], d, k - 1)
    ELSE DivSteps([q |-> BDouble(s.q), r |-> BDouble(s.r)], d, k - 1)

\* the quotient of 57 bits rounded; a remainder left makes it inexact
Quotient(s, e) == ToDouble(s.q, e, s.r # <<>>)

DDiv(x, y) ==
    IF x.m = <<>> THEN DZero
    ELSE Quotient(DivSteps([q |-> <<>>, r |-> x.m], y.m, 57), x.e - y.e - 56)

\* floor of the square root, bit by bit: n the rest, res the root so far, bit a power of 4
RECURSIVE SqrtSteps(_, _, _)
SqrtSteps(n, res, bit) ==
    IF bit = <<>> THEN [root |-> res, rest |-> n]
    ELSE IF BGeq(n, BAdd(res, bit))
         THEN SqrtSteps(BSub(n, BAdd(res, bit)), BAdd(BHalf(res), bit), BHalf(BHalf(bit)))
         ELSE SqrtSteps(n, BHalf(res), BHalf(BHalf(bit)))

\* the integer root rounded; a rest left makes it inexact
Root(s, e) == ToDouble(s.root, e, s.rest # <<>>)

\* the root of m * 2^e with m shifted left by k bits, e - k even
ScaledRoot(m, e, k) == Root(SqrtSteps(BShl(m, k), <<>>, BShl(<<1>>, 108)), (e - k) \div 2)

\* Math.sqrt: the mantissa is scaled to 109 or 110 bits with an even exponent
DSqrt(x) ==
    IF x.m = <<>> THEN DZero
    ELSE ScaledRoot(x.m, x.e, IF x.e % 2 = 0 THEN 56 ELSE 57)

\* x >= y
DGeq(x, y) ==
    IF y.m = <<>> THEN TRUE
    ELSE IF x.m = <<>> THEN FALSE
    ELSE IF x.e # y.e THEN x.e > y.e
    ELSE BGeq(x.m, y.m)

\* the double of a decimal literal or of a field given as the rational n/d
RatToDouble(q) == DDiv(DFromInt(q.n), DFromInt(q.d))

RECURSIVE DSumSeq(_)
DSumSeq(s) == IF s = <<>> THEN DZero ELSE DAdd(DSumSeq(SubSeq(s, 1, Len(s) - 1)), s[Len(s)])

\* the scores of part_005 in binary64; the set sizes are exact
calculateJaccardSimilarity64(set1, set2) ==
    LET intersection == {x \in set1 : x \in set2}
        union == set1 \cup set2
    IN  IF Cardinality(union) = 0 THEN DZero
        ELSE DDiv(DFromInt(Cardinality(intersection)), DFromInt(Cardinality(union)))

\* reduce((sum, a, i) => sum + a * vector2[i], 0) adds from the left
\* lines 23-24 of part_005
cosineOf(dotProduct, magnitude1, magnitude2) ==
    IF magnitude1 = DZero \/ magnitude2 = DZero THEN DZero
    ELSE DDiv(dotProduct, DMul(magnitude1, magnitude2))

calculateCosineSimilarity64(vector1, vector2) ==
    IF Len(vector1) # Len(vector2) THEN DZero
    ELSE cosineOf(DSumSeq([i \in 1..Len(vector1) |-> DMul(vector1[i], vector2[i])]),
                  DSqrt(DSumSeq([i \in 1..Len(vector1) |-> DMul(vector1[i], vector1[i])])),
                  DSqrt(DSumSeq([i \in 1..Len(vector2) |-> DMul(vector2[i], vector2[i])])))

calculateStructuralSimilarity64(schema1, schema2) ==
    LET keys1 == DOMAIN schema1
        keys2 == DOMAIN schema2
        commonKeys == {x \in keys1 : x \in keys2}
        allKeys == keys1 \cup keys2
        typeMatches == Cardinality({key \in commonKeys : schema1[key] = schema2[key]})
    IN  IF Cardinality(allKeys) = 0 THEN DOne
        ELSE DDiv(DAdd(DDiv(DFromInt(Cardinality(commonKeys)), DFromInt(Cardinality(allKeys))),
                       IF Cardinality(commonKeys) = 0 THEN DZero
                       ELSE DDiv(DFromInt(typeMatches), DFromInt(Cardinality(commonKeys)))),
                  DFromInt(2))

calculateSemanticSimilarity64(dataset1, dataset2) ==
    LET text1 == toLowerCase(dataset1.metadata.title \o <<" ">> \o dataset1.metadata.description)
        text2 == toLowerCase(dataset2.metadata.title \o <<" ">> \o dataset2.metadata.description)
        words1 == SeqToSet(splitWhitespace(text1))
        words2 == SeqToSet(splitWhitespace(text2))
    IN  calculateJaccardSimilarity64(words1, words2)

\* the feature vector; size and the counts are whole numbers, the quality
\* scores are given as rationals
extractFeatureVector64(dataset) ==
    << DFromInt(dataset.size),
       DFromInt(dataset.metadata.columnCount),
       DFromInt(dataset.metadata.rowCount),
       RatToDouble(dataset.metadata.provenance.quality.completeness),
       RatToDouble(dataset.metadata.provenance.quality.consistency),
       RatToDouble(dataset.metadata.provenance.quality.accuracy),
       RatToDouble(dataset.metadata.provenance.quality.freshness),
       RatToDouble(dataset.metadata.provenance.quality.validity) >>

\* lines 70-78 of part_005: the four scores and their mean
metricsOf(jaccard, cosine, structural, semantic) ==
    [jaccard |-> jaccard, cosine |-> cosine, structural |-> structural, semantic |-> semantic,
     confidence |-> DDiv(DAdd(DAdd(DAdd(jaccard, structural), cosine), semantic), DFromInt(4))]

calculateSimilarityMetrics64(dataset1, dataset2) ==
    metricsOf(calculateJaccardSimilarity64(DOMAIN dataset1.metadata.dataTypes, DOMAIN dataset2.metadata.dataTypes),
              calculateCosineSimilarity64(extractFeatureVector64(dataset1), extractFeatureVector64(dataset2)),
              calculateStructuralSimilarity64(dataset1.metadata.dataTypes, dataset2.metadata.dataTypes),
              calculateSemanticSimilarity64(dataset1, dataset2))

\* the default thresholds as doubles: the literals 0.95, 0.8 and 0.6
DefaultThresholds64 == [exact |-> RatToDouble(Rat(95, 100)), similar |-> RatToDouble(Rat(8, 10)), potential |-> RatToDouble(Rat(6, 10))]

isDuplicate64(similarity, thresholds) ==
    IF DGeq(similarity.confidence, thresholds.exact) THEN "exact"
    ELSE IF DGeq(similarity.confidence, thresholds.similar) THEN "similar"
    ELSE IF DGeq(similarity.confidence, thresholds.potential) THEN "potential"
    ELSE "none"

RECURSIVE BShr(_, _)
BShr(a, k) ==
    IF k = 0 \/ a = <<>> THEN a
    ELSE IF k >= 15 THEN BShr(Tail(a), k - 15)
    ELSE BShr(BHalf(a), k - 1)

BToInt(a) == Limb(a, 1) + LimbBase * Limb(a, 2)

\* (confidence * 100).toFixed(1), as a number of tenths of a percent: the
\* integer nearest to ten times the double, the larger one on a tie
\* the integer nearest to ten times the double x
Tenths(x) ==
    IF x.m = <<>> THEN 0
    ELSE BToInt(BShr(BAdd(BMul(x.m, <<10>>), BShl(<<1>>, (0 - x.e) - 1)), 0 - x.e))

percentTenths64(confidence) == Tenths(DMul(confidence, DFromInt(100)))

generateRecommendation64(type, similarity) ==
    CASE type = "exact" -> [template |-> "exact", percent |-> 0]
      [] type = "similar" ->
           [template |-> "similar", percent |-> percentTenths64(similarity.confidence)]
      [] type = "potential" ->
           [template |-> "potential", percent |-> percentTenths64(similarity.confidence)]
      [] OTHER -> [template |-> "default", percent |-> 0]

---------------------------------------------------------------------------
(* A dataset compared with itself: calculateSimilarityMetrics(A, A) in     *)
(* binary64 for every dataset of a pool with a column, a title and a       *)
(* feature vector that is not zero.                                        *)

\* the quality scores set by the route (part_002, lines 68-74) and all zero
RouteQuality == [completeness |-> Rat(95, 100), consistency |-> Rat(9, 10), accuracy |-> Rat(85, 100), freshness |-> One, validity |-> Rat(92, 100)]
ZeroQuality == [completeness |-> Zero, consistency |-> Zero, accuracy |-> Zero, freshness |-> Zero, validity |-> Zero]

SelfPool == {MkDataset("d1", "c1", "s1", size, Cardinality(DOMAIN schema), rowCount, quality, <<"A">>, <<"b", " ", "c">>, schema) : size \in 1..MaxSize, rowCount \in 0..MaxRows, quality \in {ZeroQuality, RouteQuality}, schema \in MetricsSchemas \ {SchemaNone}}

InitSelf ==
    /\ datasets = <<>>
    /\ alerts = <<>>
    /\ now = 0
    /\ nAdds = 0
    /\ pruned = FALSE
    /\ requests = <<>>
    /\ running = 0
    /\ order = <<>>
    /\ repository = EmptyRepository
    /\ last \in {PureCall("dataset", a, <<>>) : a \in SelfPool}

MeasureSelf ==
    /\ last.op = "dataset"
    /\ last' = PureCall("calculateSimilarityMetrics", last.arg, calculateSimilarityMetrics64(last.arg, last.arg))
    /\ UNCHANGED <<datasets, alerts, now, nAdds, pruned, requests, running, order, repository>>

NextSelf == MeasureSelf

SpecSelf == InitSelf /\ [][NextSelf]_vars

---------------------------------------------------------------------------
(* The POST route of part_002 and DatasetFingerprintingService.  A JSON    *)
(* value is tagged with its type; a call that may throw returns            *)
(* [threw |-> TRUE] or [threw |-> FALSE, value |-> v].  A SHA-256 digest   *)
(* is the tagged pre-image: distinct inputs have distinct digests.         *)

Undefined == [type |-> "undefined"]
Str(chars) == [type |-> "string", chars |-> chars]
Arr(rows) == [type |-> "array", rows |-> rows]

Sha256(x) == <<"sha256", x>>

Returned(v) == [threw |-> FALSE, value |-> v]
Thrown == [threw |-> TRUE]

\* Hash.update accepts a string or a binary buffer and throws on anything else
generateContentHash(content) ==
    IF content.type = "string" THEN Returned(Sha256(content.chars)) ELSE Thrown

\* String.prototype.localeCompare on the column names of the model
ColumnRank(name) == CASE name = "id" -> 1 [] name = "name" -> 2 [] name = "price" -> 3

RECURSIVE SortKeys(_)
SortKeys(keys) ==
    IF keys = {} THEN <<>>
    ELSE LET first == CHOOSE k \in keys : \A j \in keys : ColumnRank(k) <= ColumnRank(j)
         IN  <<first>> \o SortKeys(keys \ {first})

\* the entries sorted by key, each as key ":" type, joined by "|"
RECURSIVE JoinEntries(_, _)
JoinEntries(schema, keys) ==
    IF keys = <<>> THEN <<>>
    ELSE IF Len(keys) = 1 THEN <<Head(keys), ":", schema[Head(keys)]>>
    ELSE <<Head(keys), ":", schema[Head(keys)], "|">> \o JoinEntries(schema, Tail(keys))

\* Object.entries throws on undefined
generateSchemaHash(schema) ==
    IF schema = Undefined THEN Thrown
    ELSE Returned(Sha256(JoinEntries(schema, SortKeys(DOMAIN schema))))

\* the statistics of rows whose cells are numbers: per column of the first
\* row, the mean, minimum, maximum and count of the cells present
calculateStatistics(data) ==
    IF Len(data) = 0 THEN <<>>
    ELSE [column \in DOMAIN data[1] |->
            LET rows == {i \in 1..Len(data) : column \in DOMAIN data[i]}
                total == SumSeq([i \in 1..Len(data) |-> IF i \in rows THEN data[i][column] ELSE 0])
            IN  [type |-> "numeric",
                 mean |-> Rat(total, Cardinality(rows)),
                 min |-> CHOOSE v \in {data[i][column] : i \in rows} : \A i \in rows : v <= data[i][column],
                 max |-> CHOOSE v \in {data[i][column] : i \in rows} : \A i \in rows : v >= data[i][column],
                 count |-> Cardinality(rows)]]

\* reading .length of undefined throws; "" and [] give the empty string; a
\* string with characters has no map method, so calculateStatistics throws
generateStatisticalHash(data) ==
    IF data.type = "undefined" THEN Thrown
    ELSE IF data.type = "string" THEN (IF Len(data.chars) = 0 THEN Returned(<<>>) ELSE Thrown)
    ELSE IF Len(data.rows) = 0 THEN Returned(<<>>)
    ELSE Returned(Sha256(calculateStatistics(data.rows)))

\* lines 39-45 of POST: the body is parsed and the three hashes are made in
\* this order; the first throw ends them
Fingerprint(body) ==
    IF body.json # "ok" THEN Thrown
    ELSE LET contentHash == generateContentHash(body.content)
         IN  IF contentHash.threw \/ body.metadata = Undefined THEN Thrown
             ELSE LET schemaHash == generateSchemaHash(body.metadata.dataTypes)
                  IN  IF schemaHash.threw THEN Thrown
                      ELSE LET statisticalHash == generateStatisticalHash(body.content)
                           IN  IF statisticalHash.threw THEN Thrown
                               ELSE Returned([contentHash |-> contentHash.value,
                                              schemaHash |-> schemaHash.value,
                                              statisticalHash |-> statisticalHash.value])

\* lines 48-77 of POST: JSON.stringify of a string of plain characters is
\* the string in quotes
BuildDataset(body, fingerprint, id, t) ==
    [id |-> id,
     size |-> Len(body.content.chars) + 2,
     createdAt |-> t,
     fingerprint |-> fingerprint,
     metadata |-> [title |-> body.metadata.title,
                   description |-> body.metadata.description,
                   columnCount |-> body.metadata.columnCount,
                   rowCount |-> body.metadata.rowCount,
                   dataTypes |-> body.metadata.dataTypes,
                   provenance |-> [quality |-> RouteQuality]]]

Metadata(title, description, columnCount, rowCount, dataTypes) == [title |-> title, description |-> description, columnCount |-> columnCount, rowCount |-> rowCount, dataTypes |-> dataTypes]

ValidMetadata == {Metadata(<<"A">>, <<"b", " ", "c">>, 2, 1, SchemaIdName), Metadata(<<"a">>, <<"b", " ", "d">>, 2, 2, SchemaIdNameNum), Metadata(<<"x">>, <<>>, 1, 5, SchemaPrice)}

Body(json, content, metadata) == [json |-> json, content |-> content, metadata |-> metadata]

\* the empty string as content, with each metadata
EmptyContentBodies == {Body("ok", Str(<<>>), m) : m \in ValidMetadata}

\* what the upload form sends (part_003, lines 76-85): the rows parsed from
\* the text area and the column types of the first row
RowBodies == {Body("ok", Arr(<<[id |-> 1], [id |-> 2]>>), Metadata(<<"A">>, <<>>, 1, 2, SchemaId))}

\* a text as content
TextBodies == {Body("ok", Str(<<"i", "d">>), Metadata(<<"A">>, <<>>, 1, 1, SchemaId))}

\* not JSON; no content; no metadata; no dataTypes
MalformedBodies == {Body("invalid", Undefined, Undefined), Body("ok", Undefined, Metadata(<<"A">>, <<>>, 1, 1, SchemaId)), Body("ok", Str(<<>>), Undefined), Body("ok", Str(<<>>), Metadata(<<"A">>, <<>>, 1, 1, Undefined))}

Bodies == EmptyContentBodies \cup RowBodies \cup TextBodies \cup MalformedBodies

\* Object.keys(undefined) throws in calculateSimilarityMetrics (part_005, lines 55-56)
MetricsThrow(dataset1, dataset2) == dataset1.metadata.dataTypes = Undefined \/ dataset2.metadata.dataTypes = Undefined

\* what the scores of a dataset depend on
Profile(dataset) == [size |-> dataset.size, metadata |-> dataset.metadata]

\* the bodies whose fingerprinting returns are the ones with the empty string
RouteProfiles == {Profile(BuildDataset(body, <<>>, 0, 0)) : body \in EmptyContentBodies}

\* calculateSimilarityMetrics64 on the datasets the route can build, tabulated
\* once (@@ makes the table an explicit function)
RouteMetrics == [p \in RouteProfiles \X RouteProfiles |-> calculateSimilarityMetrics64(p[1], p[2])] @@ <<>>

calculateSimilarityMetricsTabled(dataset1, dataset2) == RouteMetrics[<<Profile(dataset1), Profile(dataset2)>>]

\* createAlert; similarity is the value its line 60 computes, calculateSimilarityMetrics(newDataset, existingDataset)
createAlert64(newDataset, existingDataset, type, confidence, similarity, t) ==
    [type |-> type,
     confidence |-> confidence,
     originalDataset |-> existingDataset,
     duplicateDataset |-> newDataset,
     similarities |-> similarity,
     recommendation |-> generateRecommendation64(type, similarity),
     createdAt |-> t]

\* lines 24-36 of checkForDuplicates given the scores of the pair
compareScored(newDataset, existingDataset, similarity, t) ==
    IF isExactMatch(newDataset, existingDataset)
    THEN << createAlert64(newDataset, existingDataset, "exact", DOne, similarity, t) >>
    ELSE IF isDuplicate64(similarity, DefaultThresholds64) # "none"
         THEN << createAlert64(newDataset, existingDataset, isDuplicate64(similarity, DefaultThresholds64), similarity.confidence, similarity, t) >>
         ELSE << >>

\* one turn of the loop of checkForDuplicates: the alerts it pushes, or the throw
compareWith64(newDataset, existingDataset, t) ==
    IF MetricsThrow(newDataset, existingDataset) THEN [threw |-> TRUE, alerts |-> <<>>]
    ELSE [threw |-> FALSE, alerts |-> compareScored(newDataset, existingDataset, calculateSimilarityMetricsTabled(newDataset, existingDataset), t)]

\* what each turn of the loop of checkForDuplicates would do; the entry with the dataset's own id is skipped
scanTurns(newDataset, map, t) ==
    [i \in 1..Len(map) |-> IF map[i].id = newDataset.id
                           THEN [threw |-> FALSE, alerts |-> <<>>]
                           ELSE compareWith64(newDataset, map[i], t)]

\* the loop from entry i on; a throw ends it and keeps the alerts pushed so far
RECURSIVE checkForDuplicatesFrom64(_, _, _, _, _)
checkForDuplicatesFrom64(newDataset, map, turns, i, acc) ==
    IF i > Len(map) \/ acc.threw THEN acc
    ELSE checkForDuplicatesFrom64(newDataset, map, turns, i + 1,
             [alerts |-> acc.alerts \o turns[i].alerts,
              compared |-> IF map[i].id = newDataset.id THEN acc.compared ELSE Append(acc.compared, map[i].id),
              threw |-> turns[i].threw])

checkForDuplicates64(newDataset, map, log, t) ==
    checkForDuplicatesFrom64(newDataset, map, scanTurns(newDataset, map, t), 1, [alerts |-> log, compared |-> <<>>, threw |-> FALSE])

---------------------------------------------------------------------------
(* The handlers of concurrent POST requests on the one event loop.  A      *)
(* handler runs from where it is until it awaits or returns; the loop      *)
(* starts or resumes a handler only when none is running.                  *)

\* the id made at line 49 from Date.now() and Math.random(): one per request
DatasetId(r) == "dataset_" \o ToString(r)

NewRequest == [pc |-> "new", body |-> Undefined, dataset |-> NoDataset, before |-> <<>>, log |-> <<>>, compared |-> <<>>, response |-> Undefined]

InitRoute ==
    /\ datasets = <<>>
    /\ alerts = <<>>
    /\ now = 0
    /\ last = Idle
    /\ nAdds = 0
    /\ pruned = FALSE
    /\ requests = [r \in 1..MaxRequests |-> NewRequest]
    /\ running = 0
    /\ order = <<>>
    /\ repository = EmptyRepository

\* mutant: addDataset awaits between the registry insert and the scan
Yields_InsideAddDataset(pc) == pc \in {"json", "scan"}

\* the positions where a handler is suspended: the await of request.json()
Yields(pc) == pc = "json"

\* the loop may run a step of request r
CanRun(r) == running = r \/ (running = 0 /\ (requests[r].pc = "new" \/ Yields(requests[r].pc)))

\* the handler running after a step that leaves request r at pc
Next_running(r, pc) == IF Yields(pc) \/ pc = "done" THEN 0 ELSE r

\* POST is called and runs to its await
Receive(r, body) ==
    /\ CanRun(r)
    /\ requests[r].pc = "new"
    /\ \A earlier \in 1..(r - 1) : requests[earlier].pc # "new"
    /\ requests' = [requests EXCEPT ![r].pc = "json", ![r].body = body]
    /\ running' = Next_running(r, "json")
    /\ UNCHANGED <<datasets, alerts, now, last, nAdds, pruned, order, repository>>

\* the body has arrived: lines 39-77, the fingerprints and the dataset
Resume(r) ==
    /\ CanRun(r)
    /\ requests[r].pc = "json"
    /\ LET fingerprint == Fingerprint(requests[r].body)
       IN  IF fingerprint.threw
           THEN /\ requests' = [requests EXCEPT ![r].pc = "catch"]
                /\ running' = Next_running(r, "catch")
           ELSE /\ requests' = [requests EXCEPT ![r].pc = "insert",
                                   ![r].dataset = BuildDataset(requests[r].body, fingerprint.value, DatasetId(r), now)]
                /\ running' = Next_running(r, "insert")
    /\ UNCHANGED <<datasets, alerts, now, last, nAdds, pruned, order, repository>>

\* addDataset, line 12 of detection.ts: this.datasets.set
Insert(r) ==
    /\ CanRun(r)
    /\ requests[r].pc = "insert"
    /\ datasets' = MapSet(datasets, requests[r].dataset)
    /\ requests' = [requests EXCEPT ![r].pc = "scan", ![r].before = datasets, ![r].log = alerts]
    /\ order' = Append(order, [op |-> "addDataset", dataset |-> requests[r].dataset, arg |-> 0])
    /\ running' = Next_running(r, "scan")
    /\ UNCHANGED <<alerts, now, last, nAdds, pruned, repository>>

\* addDataset, line 13: this.checkForDuplicates
Scan(r) ==
    /\ CanRun(r)
    /\ requests[r].pc = "scan"
    /\ LET scan == checkForDuplicates64(requests[r].dataset, datasets, alerts, now)
           pc == IF scan.threw THEN "catch" ELSE "respond"
       IN  /\ alerts' = scan.alerts
           /\ requests' = [requests EXCEPT ![r].pc = pc, ![r].compared = scan.compared]
           /\ running' = Next_running(r, pc)
    /\ UNCHANGED <<datasets, now, last, nAdds, pruned, order, repository>>

\* lines 83-89: the response with the dataset's alerts
Respond(r) ==
    /\ CanRun(r)
    /\ requests[r].pc = "respond"
    /\ requests' = [requests EXCEPT ![r].pc = "done",
                       ![r].response = [status |-> 200,
                                        alerts |-> SelectSeq(alerts, LAMBDA alert :
                                            \/ alert.originalDataset.id = requests[r].dataset.id
                                            \/ alert.duplicateDataset.id = requests[r].dataset.id)]]
    /\ running' = Next_running(r, "done")
    /\ UNCHANGED <<datasets, alerts, now, last, nAdds, pruned, order, repository>>

\* lines 90-93: the catch block
Catch(r) ==
    /\ CanRun(r)
    /\ requests[r].pc = "catch"
    /\ requests' = [requests EXCEPT ![r].pc = "done", ![r].response = [status |-> 500, alerts |-> <<>>]]
    /\ running' = Next_running(r, "done")
    /\ UNCHANGED <<datasets, alerts, now, last, nAdds, pruned, order, repository>>

\* clearOldAlerts called while no handler is running
Prune(olderThanDays) ==
    /\ running = 0
    /\ LET cutoffDate == now - olderThanDays
           kept == SelectSeq(alerts, LAMBDA alert : clearOldAlertsFilter(alert, cutoffDate))
       IN  /\ Len(kept) < Len(alerts)
           /\ alerts' = kept
    /\ pruned' = TRUE
    /\ order' = Append(order, [op |-> "clearOldAlerts", dataset |-> NoDataset, arg |-> olderThanDays])
    /\ UNCHANGED <<datasets, now, last, nAdds, requests, running, repository>>

NextRoute ==
    \/ \E r \in 1..MaxRequests, body \in Bodies : Receive(r, body)
    \/ \E r \in 1..MaxRequests : Resume(r)
    \/ \E r \in 1..MaxRequests : Insert(r)
    \/ \E r \in 1..MaxRequests : Scan(r)
    \/ \E r \in 1..MaxRequests : Respond(r)
    \/ \E r \in 1..MaxRequests : Catch(r)
    \/ \E olderThanDays \in 0..MaxDays : Prune(olderThanDays)

SpecRoute == InitRoute /\ [][NextRoute]_vars

---------------------------------------------------------------------------
(* generateSchemaHash on a schema as an object: its entries in insertion   *)
(* order.  Names and types are strings of characters, so that the string   *)
(* built from them is the one the digest is taken of.  The names include   *)
(* one with a colon and the two spellings of one accented letter, as one   *)
(* character and as a letter followed by a combining mark.                 *)

\* the collation order of the characters: punctuation before letters
CharRank(c) == CASE c = ":" -> 1 [] c = "|" -> 2 [] c = "a" -> 3 [] c = "b" -> 4 [] c = "c" -> 5 [] c = "e" -> 6 [] c = "e_acute" -> 7 [] c = "acute" -> 8

\* canonical composition: a letter and its combining mark are one character
RECURSIVE Canonical(_)
Canonical(s) ==
    IF s = <<>> THEN <<>>
    ELSE IF Len(s) >= 2 /\ s[1] = "e" /\ s[2] = "acute" THEN <<"e_acute">> \o Canonical(SubSeq(s, 3, Len(s)))
    ELSE <<s[1]>> \o Canonical(Tail(s))

\* -1, 0 or 1 as a sorts before, with or after b, character by character
RECURSIVE CompareChars(_, _)
CompareChars(a, b) ==
    IF a = <<>> /\ b = <<>> THEN 0
    ELSE IF a = <<>> THEN 0 - 1
    ELSE IF b = <<>> THEN 1
    ELSE IF CharRank(a[1]) < CharRank(b[1]) THEN 0 - 1
    ELSE IF CharRank(a[1]) > CharRank(b[1]) THEN 1
    ELSE CompareChars(Tail(a), Tail(b))

\* String.prototype.localeCompare: canonically equivalent strings compare equal
localeCompare(a, b) == CompareChars(Canonical(a), Canonical(b))

\* Array.prototype.sort is stable: an entry goes after the entries that do not sort after it
RECURSIVE InsertSorted(_, _)
InsertSorted(sorted, entry) ==
    IF sorted = <<>> THEN <<entry>>
    ELSE IF localeCompare(sorted[1].key, entry.key) <= 0 THEN <<sorted[1]>> \o InsertSorted(Tail(sorted), entry)
    ELSE <<entry>> \o sorted

RECURSIVE sortEntries(_)
sortEntries(entries) ==
    IF entries = <<>> THEN <<>>
    ELSE InsertSorted(sortEntries(SubSeq(entries, 1, Len(entries) - 1)), entries[Len(entries)])

\* map(([key, type]) => `${key}:${type}`).join("|")
RECURSIVE joinEntries(_)
joinEntries(entries) ==
    IF entries = <<>> THEN <<>>
    ELSE IF Len(entries) = 1 THEN entries[1].key \o <<":">> \o entries[1].type
    ELSE entries[1].key \o <<":">> \o entries[1].type \o <<"|">> \o joinEntries(Tail(entries))

schemaString(entries) == joinEntries(sortEntries(entries))

generateSchemaHashOfEntries(entries) == Sha256(schemaString(entries))

SchemaKeys == {<<"a">>, <<"a", ":", "b">>, <<"e_acute">>, <<"e", "acute">>}
SchemaTypes == {<<"c">>, <<"b", ":", "c">>}
SchemaEntries == [key : SchemaKeys, type : SchemaTypes]

\* the objects with at most MaxColumns properties: no key twice
RECURSIVE SchemaObjects(_)
SchemaObjects(n) ==
    IF n = 0 THEN {<<>>}
    ELSE SchemaObjects(n - 1) \cup
         {Append(x[1], x[2]) : x \in {y \in SchemaObjects(n - 1) \X SchemaEntries :
                                         Len(y[1]) = n - 1 /\ \A i \in 1..Len(y[1]) : y[1][i].key # y[2].key}}

InitSchema ==
    /\ datasets = <<>>
    /\ alerts = <<>>
    /\ now = 0
    /\ nAdds = 0
    /\ pruned = FALSE
    /\ requests = <<>>
    /\ running = 0
    /\ order = <<>>
    /\ repository = EmptyRepository
    /\ last \in {PureCall("schemas", [s1 |-> s1, s2 |-> s2], <<>>) : s1 \in SchemaObjects(MaxColumns), s2 \in SchemaObjects(MaxColumns)}

HashSchemas ==
    /\ last.op = "schemas"
    /\ last' = PureCall("generateSchemaHash", last.arg,
                    [string1 |-> schemaString(last.arg.s1),
                     string2 |-> schemaString(last.arg.s2),
                     hash1 |-> generateSchemaHashOfEntries(last.arg.s1),
                     hash2 |-> generateSchemaHashOfEntries(last.arg.s2)])
    /\ UNCHANGED <<datasets, alerts, now, nAdds, pruned, requests, running, order, repository>>

NextSchema == HashSchemas

SpecSchema == InitSchema /\ [][NextSchema]_vars

---------------------------------------------------------------------------
(* The set scores alone: calculateJaccardSimilarity on every pair of sets  *)
(* of strings over three strings, and calculateStructuralSimilarity on     *)
(* every pair of schemas over two column names and two types, the empty    *)
(* ones included.                                                          *)

ScoreStrings == {"a", "b", "c"}

\* every schema over the names id and name and the types number and string
ScoreSchemas == UNION {[keys -> {"number", "string"}] : keys \in SUBSET {"id", "name"}}

InitScores ==
    /\ datasets = <<>>
    /\ alerts = <<>>
    /\ now = 0
    /\ nAdds = 0
    /\ pruned = FALSE
    /\ requests = <<>>
    /\ running = 0
    /\ order = <<>>
    /\ repository = EmptyRepository
    /\ \/ last \in {PureCall("sets", [a |-> a, b |-> b], <<>>) : a \in SUBSET ScoreStrings, b \in SUBSET ScoreStrings}
       \/ last \in {PureCall("schemaPair", [a |-> a, b |-> b], <<>>) : a \in ScoreSchemas, b \in ScoreSchemas}

Jaccard ==
    /\ last.op = "sets"
    /\ last' = PureCall("calculateJaccardSimilarity", last.arg, calculateJaccardSimilarity(last.arg.a, last.arg.b))
    /\ UNCHANGED <<datasets, alerts, now, nAdds, pruned, requests, running, order, repository>>

Structural ==
    /\ last.op = "schemaPair"
    /\ last' = PureCall("calculateStructuralSimilarity", last.arg, calculateStructuralSimilarity(last.arg.a, last.arg.b))
    /\ UNCHANGED <<datasets, alerts, now, nAdds, pruned, requests, running, order, repository>>

NextScores ==
    \/ Jaccard
    \/ Structural

SpecScores == InitScores /\ [][NextScores]_vars

---------------------------------------------------------------------------
(* DuplicationDetectionService called directly, with datasets whose        *)
(* metadata may lack dataTypes: calculateSimilarityMetrics throws on such  *)
(* a pair, and nothing in addDataset catches it.                           *)

\* a dataset whose metadata has no dataTypes
BareDataset(id, contentHash, schemaHash) == MkDataset(id, contentHash, schemaHash, 1, 1, 1, NoQuality, <<"A">>, <<>>, Undefined)

ServicePool == {DatasetOf("d1", "base"), DatasetOf("d2", "sameHashes"), DatasetOf("d3", "similar"), BareDataset("d2", "c1", "s1"), BareDataset("d3", "c6", "s6"), BareDataset("d4", "c1", "s1")}

\* one turn of the loop of checkForDuplicates for an existing dataset other
\* than the new one: the alerts it pushes, the calls of
\* calculateSimilarityMetrics it makes (by the existing dataset's id), and
\* whether one of them threw.  Line 24 takes the shortcut to createAlert,
\* whose line 60 makes the call; line 30 makes it otherwise, and createAlert
\* makes it again when the pair is classified.
TryCompareWith(newDataset, existingDataset, t) ==
    IF MetricsThrow(newDataset, existingDataset)
    THEN [threw |-> TRUE, alerts |-> <<>>, measured |-> <<existingDataset.id>>]
    ELSE [threw |-> FALSE,
          alerts |-> compareWith(newDataset, existingDataset, t),
          measured |-> IF isExactMatch(newDataset, existingDataset) \/ compareWith(newDataset, existingDataset, t) = <<>>
                       THEN <<existingDataset.id>>
                       ELSE <<existingDataset.id, existingDataset.id>>]

\* the loop from entry i on; a throw ends it and keeps what was pushed so far
RECURSIVE TryCheckForDuplicatesFrom(_, _, _, _, _)
TryCheckForDuplicatesFrom(newDataset, map, i, acc, t) ==
    IF i > Len(map) \/ acc.threw THEN acc
    ELSE IF map[i].id = newDataset.id
         THEN TryCheckForDuplicatesFrom(newDataset, map, i + 1, acc, t)
         ELSE TryCheckForDuplicatesFrom(newDataset, map, i + 1,
                  [alerts |-> acc.alerts \o TryCompareWith(newDataset, map[i], t).alerts,
                   compared |-> Append(acc.compared, map[i].id),
                   measured |-> acc.measured \o TryCompareWith(newDataset, map[i], t).measured,
                   threw |-> TryCompareWith(newDataset, map[i], t).threw], t)

TryCheckForDuplicates(newDataset, map, log, t) ==
    TryCheckForDuplicatesFrom(newDataset, map, 1, [alerts |-> log, compared |-> <<>>, measured |-> <<>>, threw |-> FALSE], t)

\* the record kept of the call of addDataset just made: registry and log as
\* they were when it began, the datasets compared, the calls of
\* calculateSimilarityMetrics, and whether the call threw
TryCall(dataset, scan) ==
    [op |-> "addDataset", dataset |-> dataset, before |-> datasets, log |-> alerts,
     compared |-> scan.compared, measured |-> scan.measured, threw |-> scan.threw]

InitService ==
    /\ datasets = <<>>
    /\ alerts = <<>>
    /\ now = 0
    /\ last = [op |-> "idle", dataset |-> NoDataset, before |-> <<>>, log |-> <<>>, compared |-> <<>>, measured |-> <<>>, threw |-> FALSE]
    /\ nAdds = 0
    /\ pruned = FALSE
    /\ requests = <<>>
    /\ running = 0
    /\ order = <<>>
    /\ repository = EmptyRepository

\* addDataset: line 12 registers the dataset, line 13 scans; a throw in the
\* scan leaves the method with the registry and the log as they then are
TryAddDataset(dataset) ==
    /\ nAdds < MaxAdds
    /\ LET map == MapSet(datasets, dataset)
           scan == TryCheckForDuplicates(dataset, map, alerts, now)
       IN  /\ datasets' = map
           /\ alerts' = scan.alerts
           /\ last' = TryCall(dataset, scan)
    /\ nAdds' = nAdds + 1
    /\ UNCHANGED <<now, pruned, requests, running, order, repository>>

NextService == \E dataset \in ServicePool : TryAddDataset(dataset)

SpecService == InitService /\ [][NextService]_vars

---------------------------------------------------------------------------
(* generateMerkleRoot alone, on every list of at most MaxChunks chunks     *)
(* drawn from the empty string, "a" and "b".  A string is the sequence of  *)
(* its characters.                                                          *)

\* createHash("sha256").update(s).digest("hex") as a text: never empty, and
\* distinct for distinct inputs
HexDigest(chars) == <<"sha256(">> \o chars \o <<")">>

\* left + right for the pair that starts at i: chunks[i + 1] || left takes
\* left when there is no chunk at i + 1 and when that chunk is falsy, which
\* for a string means empty
combined(chunks, i) ==
    LET left == chunks[i]
        right == IF i + 1 <= Len(chunks) /\ chunks[i + 1] # <<>> THEN chunks[i + 1] ELSE left
    IN  HexDigest(left \o right)

\* the loop of lines 95-104: one digest per pair
nextLevel(chunks) == [p \in 1..((Len(chunks) + 1) \div 2) |-> combined(chunks, 2 * p - 1)]

RECURSIVE generateMerkleRoot(_)
generateMerkleRoot(chunks) ==
    IF Len(chunks) = 0 THEN <<>>
    ELSE IF Len(chunks) = 1 THEN chunks[1]
    ELSE generateMerkleRoot(nextLevel(chunks))

Chunks == {<<>>, <<"a">>, <<"b">>}

ChunkLists == UNION {[1..n -> Chunks] : n \in 0..MaxChunks}

InitMerkle ==
    /\ datasets = <<>>
    /\ alerts = <<>>
    /\ now = 0
    /\ nAdds = 0
    /\ pruned = FALSE
    /\ requests = <<>>
    /\ running = 0
    /\ order = <<>>
    /\ repository = EmptyRepository
    /\ last \in {PureCall("chunks", chunks, <<>>) : chunks \in ChunkLists}

MerkleRoot ==
    /\ last.op = "chunks"
    /\ last' = PureCall("generateMerkleRoot", last.arg, generateMerkleRoot(last.arg))
    /\ UNCHANGED <<datasets, alerts, now, nAdds, pruned, requests, running, order, repository>>

NextMerkle == MerkleRoot

SpecMerkle == InitMerkle /\ [][NextMerkle]_vars

---------------------------------------------------------------------------
(* calculateSemanticSimilarity alone, on datasets with every title and     *)
(* description below: empty, white space only, one word, several words,    *)
(* with and without white space at the ends.                               *)

SemanticTitles == {<<>>, <<" ">>, <<"A">>, <<"a", " ", "b">>}
SemanticDescriptions == {<<>>, <<"\t">>, <<"b">>, <<" ", "a">>}

SemanticPool(id) == {MkDataset(id, "c1", "s1", 1, 1, 1, NoQuality, title, description, SchemaId) : title \in SemanticTitles, description \in SemanticDescriptions}

InitSemantic ==
    /\ datasets = <<>>
    /\ alerts = <<>>
    /\ now = 0
    /\ nAdds = 0
    /\ pruned = FALSE
    /\ requests = <<>>
    /\ running = 0
    /\ order = <<>>
    /\ repository = EmptyRepository
    /\ last \in {PureCall("texts", [a |-> a, b |-> b], <<>>) : a \in SemanticPool("d1"), b \in SemanticPool("d2")}

Semantic ==
    /\ last.op = "texts"
    /\ last' = PureCall("calculateSemanticSimilarity", last.arg, calculateSemanticSimilarity(last.arg.a, last.arg.b))
    /\ UNCHANGED <<datasets, alerts, now, nAdds, pruned, requests, running, order, repository>>

NextSemantic == Semantic

SpecSemantic == InitSemantic /\ [][NextSemantic]_vars

---------------------------------------------------------------------------
(* MetadataRepository (part_006): store, update and delete, one call at a *)
(* time, as when each request is answered before the next arrives.  A Map *)
(* or a Set is modelled without its iteration order, which the indexes do *)
(* not read.                                                               *)

\* ExtendedDatasetMetadata: the fields the two indexes read
ExtendedMetadata(id, title, organization) ==
    [id |-> id, title |-> title, description |-> <<>>, author |-> <<"A", "n", "n">>,
     organization |-> organization, tags |-> <<>>, searchTags |-> <<>>,
     format |-> <<"c", "s", "v">>, domain |-> <<"b", "i", "o">>, category |-> <<"r", "a", "w">>,
     sensitivity |-> <<"l", "o", "w">>, updatedAt |-> 0]

RepositoryIds == {"m1", "m2"}
RepositoryTitles == {<<"C", "a", "t">>, <<"a", "b", " ", "d", "o", "g">>}
RepositoryOrganizations == {<<"o", "r", "g">>, <<"l", "a", "b">>}

RepositoryPool == {ExtendedMetadata(id, title, organization) : id \in RepositoryIds, title \in RepositoryTitles, organization \in RepositoryOrganizations}

\* the Partial<ExtendedDatasetMetadata> given to update
RepositoryUpdates == {[title |-> title] : title \in RepositoryTitles} \cup {[organization |-> organization] : organization \in RepositoryOrganizations}

\* Array.prototype.join(" ")
RECURSIVE joinSpace(_)
joinSpace(parts) ==
    IF parts = <<>> THEN <<>>
    ELSE IF Len(parts) = 1 THEN parts[1]
    ELSE parts[1] \o <<" ">> \o joinSpace(Tail(parts))

\* lines 186-197: the words of more than two characters of the lower-cased text
indexWords(metadata) ==
    LET searchableText == toLowerCase(joinSpace(<<metadata.title, metadata.description, metadata.author, metadata.organization>> \o metadata.tags \o metadata.searchTags))
    IN  SeqToSet(SelectSeq(splitWhitespace(searchableText), LAMBDA word : Len(word) > 2))

\* a Map from keys to Sets after id is added under each of keys, the Set
\* being created where the key is new
addUnder(map, keys, id) ==
    [key \in DOMAIN map \cup keys |-> (IF key \in DOMAIN map THEN map[key] ELSE {}) \cup (IF key \in keys THEN {id} ELSE {})] @@ <<>>

\* a Map from keys to Sets after id is deleted from every Set and the keys
\* whose Set became empty are deleted
removeFrom(map, id) ==
    [key \in {k \in DOMAIN map : map[k] \ {id} # {}} |-> map[key] \ {id}] @@ <<>>

updateSearchIndex(searchIndex, metadata) == addUnder(searchIndex, indexWords(metadata), metadata.id)

\* lines 210-216: the facets of a metadata
facetsOf(metadata) ==
    [format |-> metadata.format, domain |-> metadata.domain, category |-> metadata.category,
     organization |-> metadata.organization, sensitivity |-> metadata.sensitivity]

updateFacetIndex(facetIndex, metadata) ==
    [facetName \in DOMAIN facetIndex \cup DOMAIN facetsOf(metadata) |->
        IF facetName \in DOMAIN facetsOf(metadata)
        THEN addUnder(IF facetName \in DOMAIN facetIndex THEN facetIndex[facetName] ELSE <<>>, {facetsOf(metadata)[facetName]}, metadata.id)
        ELSE facetIndex[facetName]] @@ <<>>

removeFromSearchIndex(searchIndex, metadata) == removeFrom(searchIndex, metadata.id)

removeFromFacetIndex(facetIndex, metadata) == [facetName \in DOMAIN facetIndex |-> removeFrom(facetIndex[facetName], metadata.id)] @@ <<>>

\* Map.prototype.set
mapSet(map, key, value) == [k \in DOMAIN map \cup {key} |-> IF k = key THEN value ELSE map[k]] @@ <<>>

\* Map.prototype.delete
mapDelete(map, key) == [k \in DOMAIN map \ {key} |-> map[k]] @@ <<>>

\* the repository after store(metadata)
stored(repo, metadata) ==
    [metadata |-> mapSet(repo.metadata, metadata.id, metadata),
     searchIndex |-> updateSearchIndex(repo.searchIndex, metadata),
     facetIndex |-> updateFacetIndex(repo.facetIndex, metadata)]

\* {...existing, ...updates, updatedAt: new Date()}
merged(existing, updates) ==
    [field \in DOMAIN existing |-> IF field = "updatedAt" THEN now
                                   ELSE IF field \in DOMAIN updates THEN updates[field]
                                   ELSE existing[field]]

\* performTextSearch: the candidates indexed under a word of the query
performTextSearch(text, candidates) ==
    LET words == SeqToSet(SelectSeq(splitWhitespace(toLowerCase(text)), LAMBDA word : Len(word) > 2))
    IN  {id \in candidates : \E word \in words : word \in DOMAIN repository.searchIndex /\ id \in repository.searchIndex[word]}

InitRepository ==
    /\ datasets = <<>>
    /\ alerts = <<>>
    /\ now = 0
    /\ last = Idle
    /\ nAdds = 0
    /\ pruned = FALSE
    /\ requests = <<>>
    /\ running = 0
    /\ order = <<>>
    /\ repository = EmptyRepository

store(metadata) ==
    /\ repository' = stored(repository, metadata)
    /\ last' = PureCall("store", metadata.id, Returned(<<>>))
    /\ UNCHANGED <<datasets, alerts, now, nAdds, pruned, requests, running, order>>

update(id, updates) ==
    /\ IF id \in DOMAIN repository.metadata
       THEN /\ repository' = stored(repository, merged(repository.metadata[id], updates))
            /\ last' = PureCall("update", id, Returned(<<>>))
       ELSE /\ repository' = repository
            /\ last' = PureCall("update", id, Thrown)
    /\ UNCHANGED <<datasets, alerts, now, nAdds, pruned, requests, running, order>>

delete(id) ==
    /\ IF id \in DOMAIN repository.metadata
       THEN /\ repository' = [metadata |-> mapDelete(repository.metadata, id),
                              searchIndex |-> removeFromSearchIndex(repository.searchIndex, repository.metadata[id]),
                              facetIndex |-> removeFromFacetIndex(repository.facetIndex, repository.metadata[id])]
            /\ last' = PureCall("delete", id, Returned(<<>>))
       ELSE /\ repository' = repository
            /\ last' = PureCall("delete", id, Thrown)
    /\ UNCHANGED <<datasets, alerts, now, nAdds, pruned, requests, running, order>>

NextRepository ==
    \/ \E metadata \in RepositoryPool : store(metadata)
    \/ \E id \in RepositoryIds, updates \in RepositoryUpdates : update(id, updates)
    \/ \E id \in RepositoryIds : delete(id)

SpecRepository == InitRepository /\ [][NextRepository]_vars

---------------------------------------------------------------------------
(* Vocabulary of the properties *)

Added == last.op = "addDataset"

\* the positions of the alerts the call just made appended
NewPositions == (last.base + 1)..Len(alerts)

\* the registered datasets other than the one just added
Others == {datasets[i] : i \in {j \in 1..Len(datasets) : datasets[j].id # last.dataset.id}}

HashEqual(d, e) ==
    /\ d.fingerprint.contentHash = e.fingerprint.contentHash
    /\ d.fingerprint.schemaHash = e.fingerprint.schemaHash

RegisteredIds(map) == {map[i].id : i \in 1..Len(map)}

IsPrefix(s, t) == Len(s) <= Len(t) /\ \A i \in 1..Len(s) : s[i] = t[i]

---------------------------------------------------------------------------
\* C1: when addDataset(D) finds a registered dataset E with another id and the
\* same contentHash and schemaHash, it appends an alert for (E, D), and every
\* alert it appends for (E, D) has type "exact" and confidence 1, whatever
\* the pair's similarity metrics are.
C1_ExactShortcut ==
    Added =>
        \A E \in Others :
            HashEqual(last.dataset, E) =>
                /\ \E k \in NewPositions :
                      /\ alerts[k].originalDataset = E
                      /\ alerts[k].duplicateDataset = last.dataset
                /\ \A k \in NewPositions :
                      (alerts[k].originalDataset = E /\ alerts[k].duplicateDataset = last.dataset)
                          => (alerts[k].type = "exact" /\ alerts[k].confidence = One)

\* a hash-equal pair whose metrics average below 0.6 got its exact alert
C1_Witness ==
    /\ Added
    /\ \E k \in NewPositions :
          /\ HashEqual(alerts[k].originalDataset, alerts[k].duplicateDataset)
          /\ alerts[k].type = "exact"
          /\ alerts[k].confidence = One
          /\ RLess(alerts[k].similarities.confidence, Rat(6, 10))

\* C2: no alert of the log has the same dataset id on both sides, after any
\* sequence of addDataset (re-submissions included) and clearOldAlerts calls.
C2_NoSelfComparison ==
    \A k \in 1..Len(alerts) : alerts[k].originalDataset.id # alerts[k].duplicateDataset.id

\* an id was submitted a second time, after a pruning, and the call left alerts
C2_Witness ==
    /\ Added
    /\ pruned
    /\ last.known
    /\ NewPositions # {}

\* C3: addDataset(D) compares D with exactly the datasets registered when the
\* call began, D's own id excepted, each once; and every alert the call
\* appends has D as its duplicateDataset, so no later insertion of another
\* dataset makes D the duplicate.
C3_ComparedAtInsertion ==
    [][last'.op = "addDataset" =>
          LET before == RegisteredIds(datasets) \ {last'.dataset.id}
          IN  /\ SeqToSet(last'.compared) = before
              /\ Len(last'.compared) = Cardinality(before)
              /\ \A k \in (Len(alerts) + 1)..Len(alerts') :
                    alerts'[k].duplicateDataset = last'.dataset]_vars

\* a third dataset was compared with the two registered before it, and was
\* reported against the first of them
C3_Witness ==
    /\ Added
    /\ Len(last.compared) = 2
    /\ \E k \in NewPositions : alerts[k].originalDataset.id = last.compared[1]

\* C4 (as claimed): with no pruning, the log never holds two alerts for the
\* same pair (original id, duplicate id), and it holds an alert for every
\* pair of registered datasets that is hash-equal or classified above "none".
C4_OncePerPair_Claim ==
    ~pruned =>
        /\ \A i, j \in 1..Len(alerts) :
              (/\ alerts[i].originalDataset.id = alerts[j].originalDataset.id
               /\ alerts[i].duplicateDataset.id = alerts[j].duplicateDataset.id) => i = j
        /\ \A i, j \in 1..Len(datasets) :
              (/\ i # j
               /\ \/ HashEqual(datasets[i], datasets[j])
                  \/ isDuplicate(calculateSimilarityMetrics(datasets[i], datasets[j]),
                                 DefaultThresholds) # "none")
                  => \E k \in 1..Len(alerts) :
                        {alerts[k].originalDataset, alerts[k].duplicateDataset}
                            = {datasets[i], datasets[j]}

\* C5: every alert appended by addDataset(D) has duplicateDataset = D and as
\* originalDataset a dataset registered before the call under another id;
\* the call appends at most one alert per such dataset; and when the only
\* dataset registered before is A, with D's content and schema hashes, the
\* call appends exactly one alert, of type "exact", from A to D.
C5_AlertRoles ==
    [][last'.op = "addDataset" =>
          LET D == last'.dataset
              before == {e \in SeqToSet(datasets) : e.id # D.id}
              new == (Len(alerts) + 1)..Len(alerts')
          IN  /\ \A k \in new :
                    /\ alerts'[k].duplicateDataset = D
                    /\ alerts'[k].originalDataset \in before
              /\ \A k, l \in new :
                    alerts'[k].originalDataset.id = alerts'[l].originalDataset.id => k = l
              /\ Cardinality(new) <= Len(datasets') - 1
              /\ \A A \in before :
                    (before = {A} /\ HashEqual(A, D)) =>
                        /\ Cardinality(new) = 1
                        /\ alerts'[Len(alerts')].type = "exact"
                        /\ alerts'[Len(alerts')].originalDataset = A
                        /\ alerts'[Len(alerts')].duplicateDataset = D]_vars

\* the second dataset registered has the hashes of the first and got the
\* one exact alert
C5_Witness ==
    /\ Added
    /\ Len(datasets) = 2
    /\ ~last.known
    /\ \E A \in Others : HashEqual(A, last.dataset)
    /\ Cardinality(NewPositions) = 1
    /\ alerts[Len(alerts)].type = "exact"

\* C6 (as claimed): the dataset stored in the registry under an id never
\* changes once it is registered.
C6_RegisteredImmutable_Claim ==
    [][\A i \in 1..Len(datasets) :
          \E j \in 1..Len(datasets') : datasets'[j] = datasets[i]]_vars

\* C7: for a compared pair that is not hash-equal, addDataset appends an
\* alert exactly when the classification of the pair's metrics is not "none",
\* that is when their confidence is at least 0.6; the alert has the
\* classification as type, the metrics' confidence as confidence and the
\* pair's metrics as similarities.
C7_ClassifiedAlert ==
    Added =>
        \A E \in Others :
            ~HashEqual(last.dataset, E) =>
                LET metrics == calculateSimilarityMetrics(last.dataset, E)
                    tier == isDuplicate(metrics, DefaultThresholds)
                    mine == {k \in NewPositions : alerts[k].originalDataset = E}
                IN  /\ (mine # {}) <=> (tier # "none")
                    /\ (mine # {}) <=> RGeq(metrics.confidence, Rat(6, 10))
                    /\ \A k \in mine :
                          /\ alerts[k].type = tier
                          /\ alerts[k].confidence = metrics.confidence
                          /\ alerts[k].similarities = metrics

\* one insertion met a pair with confidence exactly 0.6, reported as
\* potential, and a pair below 0.6, not reported
C7_Witness ==
    /\ Added
    /\ \E k \in NewPositions :
          /\ ~HashEqual(alerts[k].originalDataset, last.dataset)
          /\ alerts[k].type = "potential"
          /\ alerts[k].confidence = Rat(6, 10)
    /\ \E E \in Others :
          /\ ~HashEqual(last.dataset, E)
          /\ \A k \in NewPositions : alerts[k].originalDataset # E

C9_ClearExactly ==
    [][last'.op = "clearOldAlerts" =>
          /\ alerts' = SelectSeq(alerts, LAMBDA a : ~(a.createdAt <= now - last'.arg))
          /\ datasets' = datasets]_vars

\* a pruning removed alerts and kept others: the exact alert of a registered
\* hash-equal pair is gone, and both datasets of the pair are still registered
C9_Witness ==
    /\ last.op = "clearOldAlerts"
    /\ 0 < Len(alerts)
    /\ Len(alerts) < last.base
    /\ Len(datasets) >= 2
    /\ \A k \in 1..Len(alerts) : alerts[k].type # "exact"
    /\ \E i, j \in 1..Len(datasets) : i # j /\ HashEqual(datasets[i], datasets[j])

\* C10: addDataset leaves the log it found as a prefix of the new log;
\* getAlerts and getAlertsForDataset change neither the log nor the registry;
\* no step removes an id from the registry.
C10_AppendOnly ==
    [][/\ last'.op = "addDataset" => IsPrefix(alerts, alerts')
       /\ last'.op \in {"getAlerts", "getAlertsForDataset"} =>
             (alerts' = alerts /\ datasets' = datasets)
       /\ RegisteredIds(datasets) \subseteq RegisteredIds(datasets')]_vars

\* an insertion appended to a log that already held an alert
C10_Witness ==
    /\ Added
    /\ last.base > 0
    /\ Len(alerts) > last.base

---------------------------------------------------------------------------
\* the positions of the log whose alert names the id as original or duplicate
Mentioning(log, datasetId) == {k \in 1..Len(log) : log[k].originalDataset.id = datasetId \/ log[k].duplicateDataset.id = datasetId}

\* the n-th smallest element of a set of positions
NthOf(S, n) == CHOOSE k \in S : Cardinality({m \in S : m <= k}) = n

\* C11: getAlertsForDataset(id) returns the alerts of the log that name id as
\* original or as duplicate, all of them and no other, in the order of the
\* log, and changes neither the registry nor the log.
C11_LookupExact ==
    [][last'.op = "getAlertsForDataset" =>
          LET M == Mentioning(alerts, last'.arg)
          IN  /\ Len(last'.ret) = Cardinality(M)
              /\ \A n \in 1..Len(last'.ret) : last'.ret[n] = alerts[NthOf(M, n)]
              /\ alerts' = alerts
              /\ datasets' = datasets]_vars

\* a lookup returned two alerts, one naming the id as duplicate and a later
\* one naming it as original, and left out an alert of the log
C11_Witness ==
    /\ last.op = "getAlertsForDataset"
    /\ Len(last.ret) = 2
    /\ Len(alerts) > 2
    /\ last.ret[1].duplicateDataset.id = last.arg
    /\ last.ret[2].originalDataset.id = last.arg

\* C12: getAlertsForDataset(id) for an id that no alert of the log names,
\* registered or not, pruned or not, returns the empty list and changes
\* neither the registry nor the log.
C12_LookupNotFound ==
    [][(last'.op = "getAlertsForDataset" /\ Mentioning(alerts, last'.arg) = {}) =>
          /\ last'.ret = <<>>
          /\ alerts' = alerts
          /\ datasets' = datasets]_vars

\* a lookup of an id that was never registered returned nothing from a log
\* that holds alerts, after a pruning had removed others
C12_Witness ==
    /\ last.op = "getAlertsForDataset"
    /\ last.arg \notin RegisteredIds(datasets)
    /\ last.ret = <<>>
    /\ alerts # <<>>
    /\ pruned

---------------------------------------------------------------------------
\* c >= num/den, on the integers
Meets(c, num, den) == c.n * den >= num * c.d

TierRank(t) == CASE t = "none" -> 0 [] t = "potential" -> 1 [] t = "similar" -> 2 [] t = "exact" -> 3

\* C13: isDuplicate returns "exact" when the confidence is >= the exact
\* cutoff, else "similar" when it is >= the similar cutoff, else "potential"
\* when it is >= the potential cutoff, and "none" exactly when it is below
\* all three; under the default cutoffs the tiers start at 0.95, 0.80 and
\* 0.60, each inclusive.
C13_Classification ==
    last.op = "isDuplicate" =>
        LET c == last.arg.c1
            th == last.arg.thresholds
            t == last.ret.t1
            e == Meets(c, th.exact.n, th.exact.d)
            s == Meets(c, th.similar.n, th.similar.d)
            p == Meets(c, th.potential.n, th.potential.d)
        IN  /\ t \in {"exact", "similar", "potential", "none"}
            /\ (t = "exact") <=> e
            /\ (t = "similar") <=> (~e /\ s)
            /\ (t = "potential") <=> (~e /\ ~s /\ p)
            /\ (t = "none") <=> (~e /\ ~s /\ ~p)
            /\ th = DefaultThresholds =>
                  /\ (t = "exact") <=> Meets(c, 95, 100)
                  /\ (t = "similar") <=> (Meets(c, 80, 100) /\ ~Meets(c, 95, 100))
                  /\ (t = "potential") <=> (Meets(c, 60, 100) /\ ~Meets(c, 80, 100))

\* under the default cutoffs a confidence of exactly 0.60 is "potential" and
\* a confidence of exactly 0.95 is "exact"
C13_Witness ==
    /\ last.op = "isDuplicate"
    /\ last.arg.thresholds = DefaultThresholds
    /\ last.arg.c1 = Rat(6, 10)
    /\ last.ret.t1 = "potential"
    /\ last.arg.c2 = Rat(95, 100)
    /\ last.ret.t2 = "exact"

\* C14: with none < potential < similar < exact, a confidence that is not
\* smaller never gets a lower tier under the same cutoffs, and raising one
\* cutoff while the others stay never gives the same confidence a higher
\* tier.
C14_Monotone ==
    /\ (last.op = "isDuplicate" /\ RGeq(last.arg.c2, last.arg.c1)) =>
            TierRank(last.ret.t1) <= TierRank(last.ret.t2)
    /\ last.op = "isDuplicateRaised" =>
            TierRank(last.ret.after) <= TierRank(last.ret.before)

\* raising the exact cutoff above the confidence took it from "exact" down
\* to "similar"
C14_Witness ==
    /\ last.op = "isDuplicateRaised"
    /\ last.arg.cutoff = "exact"
    /\ last.ret.before = "exact"
    /\ last.ret.after = "similar"

---------------------------------------------------------------------------
\* the confidence of a metrics record is a quarter of the sum of its components
IsMean(m) == RAdd(RAdd(RAdd(m.jaccard, m.cosine), m.structural), m.semantic) = Rat(4 * m.confidence.n, m.confidence.d)

\* C15: the metrics calculateSimilarityMetrics returns for the dataset just
\* added and each other registered dataset, and the similarities of every
\* alert in the log, exact-shortcut alerts included, have
\* confidence = (jaccard + cosine + structural + semantic) / 4.
C15_ConfidenceIsMean ==
    /\ \A k \in 1..Len(alerts) : IsMean(alerts[k].similarities)
    /\ Added => \A e \in Others : IsMean(calculateSimilarityMetrics(last.dataset, e))

\* the log holds an exact-shortcut alert whose stored confidence is the mean
\* 0 of its components, not the alert's 1, next to an alert made from
\* metrics whose components differ
C15_Witness ==
    /\ Added
    /\ \E k \in 1..Len(alerts) :
          /\ alerts[k].type = "exact"
          /\ HashEqual(alerts[k].originalDataset, alerts[k].duplicateDataset)
          /\ alerts[k].confidence = One
          /\ alerts[k].similarities.confidence = Zero
    /\ \E k \in 1..Len(alerts) :
          /\ alerts[k].type = "similar"
          /\ alerts[k].similarities.structural # alerts[k].similarities.cosine
          /\ alerts[k].similarities.confidence = alerts[k].confidence

---------------------------------------------------------------------------
Measured == last.op = "calculateSimilarityMetrics"

\* C16: calculateSimilarityMetrics(A, B) and calculateSimilarityMetrics(B, A)
\* have the same jaccard, cosine, structural, semantic and confidence, and
\* the scan raises an alert for the pair when B is added after A exactly when
\* it does when A is added after B, with the same type.
C16_Symmetry ==
    Measured =>
        /\ last.ret.ab.jaccard = last.ret.ba.jaccard
        /\ last.ret.ab.cosine = last.ret.ba.cosine
        /\ last.ret.ab.structural = last.ret.ba.structural
        /\ last.ret.ab.semantic = last.ret.ba.semantic
        /\ last.ret.ab.confidence = last.ret.ba.confidence
        /\ Len(last.ret.alertsAB) = Len(last.ret.alertsBA)
        /\ \A k \in 1..Len(last.ret.alertsAB) : last.ret.alertsAB[k].type = last.ret.alertsBA[k].type

\* two datasets with schemas, texts and vectors of different sizes, with
\* every score strictly between 0 and 1, and an alert in both orders
C16_Witness ==
    /\ Measured
    /\ Cardinality(DOMAIN last.arg.a.metadata.dataTypes) < Cardinality(DOMAIN last.arg.b.metadata.dataTypes)
    /\ Len(last.arg.a.metadata.description) < Len(last.arg.b.metadata.description)
    /\ \A x \in {last.ret.ab.jaccard, last.ret.ab.cosine, last.ret.ab.structural, last.ret.ab.semantic} : x # Zero /\ x # One
    /\ Len(last.ret.alertsAB) = 1

\* the two datasets of the pair have no column name in common
NoCommonColumn == (DOMAIN last.arg.a.metadata.dataTypes) \cap (DOMAIN last.arg.b.metadata.dataTypes) = {}

\* C18 as stated: when the dataset added and a registered dataset share no
\* column name and are not hash-equal, jaccard = 0, structural = 0, the
\* confidence is at most 0.5 and no alert is appended for the pair.
C18_DisjointNoAlert_Claim ==
    (Measured /\ NoCommonColumn /\ ~HashEqual(last.arg.a, last.arg.b)) =>
        /\ last.ret.ab.jaccard = Zero
        /\ last.ret.ab.structural = Zero
        /\ RGeq(Rat(1, 2), last.ret.ab.confidence)
        /\ last.ret.alertsAB = <<>>

\* C18, amended: when the dataset added and a registered dataset share no
\* column name, at least one of them has a column, and they are not
\* hash-equal, jaccard = 0, structural = 0, the confidence is at most 0.5
\* and no alert is appended for the pair.
C18_DisjointNoAlert ==
    (/\ Measured
     /\ NoCommonColumn
     /\ (DOMAIN last.arg.a.metadata.dataTypes) \cup (DOMAIN last.arg.b.metadata.dataTypes) # {}
     /\ ~HashEqual(last.arg.a, last.arg.b)) =>
        /\ last.ret.ab.jaccard = Zero
        /\ last.ret.ab.structural = Zero
        /\ RGeq(Rat(1, 2), last.ret.ab.confidence)
        /\ last.ret.alertsAB = <<>>

\* two datasets with columns, none shared, equal vectors and equal texts:
\* cosine 1, semantic 1, confidence exactly 0.5 and no alert
C18_Witness ==
    /\ Measured
    /\ NoCommonColumn
    /\ DOMAIN last.arg.a.metadata.dataTypes # {}
    /\ DOMAIN last.arg.b.metadata.dataTypes # {}
    /\ ~HashEqual(last.arg.a, last.arg.b)
    /\ last.ret.ab.cosine = One
    /\ last.ret.ab.semantic = One
    /\ last.ret.ab.confidence = Rat(1, 2)
    /\ last.ret.alertsAB = <<>>

---------------------------------------------------------------------------
\* C17 as stated: for a dataset A with a column and a feature vector that is
\* not zero, calculateSimilarityMetrics(A, A) has jaccard, cosine,
\* structural and semantic equal to 1 and confidence equal to 1.
C17_SelfIdentity_Claim ==
    (last.op = "calculateSimilarityMetrics" /\ last.arg \in SelfPool) =>
        /\ last.ret.jaccard = DOne
        /\ last.ret.cosine = DOne
        /\ last.ret.structural = DOne
        /\ last.ret.semantic = DOne
        /\ last.ret.confidence = DOne

---------------------------------------------------------------------------
\* the registry and the log after the calls of `log`, made one after another
RECURSIVE Replay(_, _, _)
Replay(log, i, state) ==
    IF i > Len(log) THEN state
    ELSE IF log[i].op = "addDataset"
         THEN Replay(log, i + 1,
                  [datasets |-> MapSet(state.datasets, log[i].dataset),
                   alerts |-> checkForDuplicates64(log[i].dataset, MapSet(state.datasets, log[i].dataset), state.alerts, now).alerts])
         ELSE Replay(log, i + 1,
                  [datasets |-> state.datasets,
                   alerts |-> SelectSeq(state.alerts, LAMBDA alert : clearOldAlertsFilter(alert, now - log[i].arg))])

\* C19: while a request is between the registry insert and the end of the
\* scan of its addDataset, no other handler and no clearOldAlerts has run:
\* the registry is the one before the insert plus its dataset and the log
\* is the one at the insert; a finished scan has compared the dataset with
\* exactly the datasets registered before its insert, in their order; and
\* whenever no addDataset is under way, the registry and the log are what
\* the calls made so far give when run one after another in the order of
\* their inserts.
C19_Linearized ==
    /\ \A r \in 1..MaxRequests : requests[r].pc = "scan" =>
            /\ running = r
            /\ datasets = MapSet(requests[r].before, requests[r].dataset)
            /\ alerts = requests[r].log
    /\ \A r \in 1..MaxRequests : (requests[r].pc \in {"respond", "done"} /\ requests[r].dataset # NoDataset) =>
            requests[r].compared = [i \in 1..Len(requests[r].before) |-> requests[r].before[i].id]
    /\ (\A r \in 1..MaxRequests : requests[r].pc # "scan") =>
            [datasets |-> datasets, alerts |-> alerts] = Replay(order, 1, [datasets |-> <<>>, alerts |-> <<>>])

\* two requests in flight together: the first to arrive got its body last,
\* was inserted second, was compared with the other and raised an alert
C19_Witness ==
    /\ \A r \in 1..2 : requests[r].pc = "done" /\ requests[r].response.status = 200
    /\ Len(order) = 2
    /\ order[1].dataset.id = DatasetId(2)
    /\ order[2].dataset.id = DatasetId(1)
    /\ requests[1].compared = <<DatasetId(2)>>
    /\ requests[2].compared = <<>>
    /\ \E k \in 1..Len(alerts) : alerts[k].originalDataset.id = DatasetId(2) /\ alerts[k].duplicateDataset.id = DatasetId(1)

---------------------------------------------------------------------------
\* a submission with a body that is JSON and has content, metadata and a column type map
WellFormed(body) == body.json = "ok" /\ body.content # Undefined /\ body.metadata # Undefined /\ body.metadata.dataTypes # Undefined

\* the characters or the rows sent as content
ContentOf(body) == IF body.content.type = "string" THEN body.content.chars ELSE body.content.rows

\* a step of the handler of a submission whose fingerprinting fails
FailingStep(r) == requests[r].pc \in {"json", "catch"} /\ Fingerprint(requests[r].body).threw /\ requests'[r] # requests[r]

\* what C20 says of every state
C20_Rejected ==
    /\ \A r \in 1..MaxRequests : (requests[r].pc = "done" /\ Fingerprint(requests[r].body).threw) =>
            /\ requests[r].response.status = 500
            /\ DatasetId(r) \notin RegisteredIds(datasets)
            /\ Mentioning(alerts, DatasetId(r)) = {}
    /\ \A i \in 1..Len(datasets) : \E r \in 1..MaxRequests :
            /\ datasets[i].id = DatasetId(r)
            /\ WellFormed(requests[r].body)
            /\ datasets[i].fingerprint.contentHash = Sha256(ContentOf(requests[r].body))
            /\ datasets[i].fingerprint.schemaHash = Sha256(JoinEntries(requests[r].body.metadata.dataTypes, SortKeys(DOMAIN requests[r].body.metadata.dataTypes)))
            /\ datasets[i].fingerprint.statisticalHash # Undefined
    /\ \A r \in 1..MaxRequests : (requests[r].pc = "done" /\ WellFormed(requests[r].body)) =>
            /\ requests[r].response.status = 200
            /\ DatasetId(r) \in RegisteredIds(datasets)

\* C20 as stated: a submission whose fingerprinting fails ends in an error
\* response, is not registered and is in no alert, and the steps of its
\* handler leave the registry and the log as they were; every registered
\* dataset has the content hash of its content, the schema hash of its
\* column types and a statistical hash; and a well-formed submission is
\* answered with status 200 and registered, whatever failed before it.
C20_MalformedRejected_Claim ==
    /\ []C20_Rejected
    /\ [][\A r \in 1..MaxRequests : FailingStep(r) => UNCHANGED <<datasets, alerts>>]_vars

---------------------------------------------------------------------------
\* x is a double in [0, 1]
InUnitRange(x) == DGeq(x, DZero) /\ DGeq(DOne, x)

\* C21 as stated: every score that calculateSimilarityMetrics returns, and
\* the confidence, is a number in [0, 1].
C21_ScoreRange_Claim ==
    last.op = "calculateSimilarityMetrics" =>
        /\ InUnitRange(last.ret.jaccard)
        /\ InUnitRange(last.ret.cosine)
        /\ InUnitRange(last.ret.structural)
        /\ InUnitRange(last.ret.semantic)
        /\ InUnitRange(last.ret.confidence)

---------------------------------------------------------------------------
\* the name:type entries of a schema object, as a set
EntrySet(entries) == {entries[i] : i \in 1..Len(entries)}

\* C22 as stated: two schema objects with the same entries, inserted in any
\* order, get the same hash; and two schema objects get the same string
\* before the digest only if they have the same entries.
C22_SchemaHash_Claim ==
    last.op = "generateSchemaHash" =>
        /\ EntrySet(last.arg.s1) = EntrySet(last.arg.s2) => last.ret.hash1 = last.ret.hash2
        /\ last.ret.string1 = last.ret.string2 => EntrySet(last.arg.s1) = EntrySet(last.arg.s2)

---------------------------------------------------------------------------
\* C23: calculateJaccardSimilarity(A, B) is |A n B| / |A u B| when the union
\* is not empty and 0 when both sets are empty, and it is 1 exactly when
\* A = B and A is not empty.
C23_Jaccard ==
    last.op = "calculateJaccardSimilarity" =>
        /\ (last.arg.a \cup last.arg.b # {}) =>
               last.ret.n * Cardinality(last.arg.a \cup last.arg.b) = last.ret.d * Cardinality(last.arg.a \cap last.arg.b)
        /\ (last.arg.a = {} /\ last.arg.b = {}) => last.ret = Zero
        /\ last.ret = One <=> (last.arg.a = last.arg.b /\ last.arg.a # {})

\* two sets that overlap in one string of three: the score is 1/3
C23_Witness ==
    /\ last.op = "calculateJaccardSimilarity"
    /\ last.arg.a = {"a", "b"}
    /\ last.arg.b = {"b", "c"}
    /\ last.ret = Rat(1, 3)

---------------------------------------------------------------------------
\* the names the two schemas share, and those of them with the same type in both
SharedNames(s1, s2) == (DOMAIN s1) \cap (DOMAIN s2)
SameTyped(s1, s2) == {key \in SharedNames(s1, s2) : s1[key] = s2[key]}

\* C24: calculateStructuralSimilarity is the mean of shared names over all
\* names and same-typed shared names over shared names; the second term is
\* 0 when no name is shared, and the result is 1 when both schemas are empty.
C24_Structural ==
    last.op = "calculateStructuralSimilarity" =>
        LET shared == Cardinality(SharedNames(last.arg.a, last.arg.b))
            all == Cardinality((DOMAIN last.arg.a) \cup (DOMAIN last.arg.b))
            same == Cardinality(SameTyped(last.arg.a, last.arg.b))
        IN  /\ (all # 0 /\ shared # 0) => last.ret = RDivInt(RAdd(Rat(shared, all), Rat(same, shared)), 2)
            /\ (all # 0 /\ shared = 0) => last.ret = RDivInt(RAdd(Rat(shared, all), Zero), 2)
            /\ all = 0 => last.ret = One

\* one of two names shared, with different types: (1/2 + 0/1) / 2 = 1/4
C24_Witness ==
    /\ last.op = "calculateStructuralSimilarity"
    /\ last.arg.a = [id |-> "number", name |-> "string"]
    /\ last.arg.b = [id |-> "string"]
    /\ last.ret = Rat(1, 4)

---------------------------------------------------------------------------
\* the alert was made by the exact-match shortcut
FromShortcut(alert) == HashEqual(alert.duplicateDataset, alert.originalDataset)

\* C25: in every reachable state a 'potential' alert has 0.60 <= confidence
\* < 0.80, a 'similar' alert has 0.80 <= confidence < 0.95 and an 'exact'
\* alert has confidence >= 0.95; the confidence of an alert of the
\* exact-match shortcut is 1 and that of any other alert is the confidence
\* of its similarities.
C25_TierAgrees ==
    \A k \in 1..Len(alerts) :
        /\ alerts[k].type = "potential" => (RGeq(alerts[k].confidence, Rat(60, 100)) /\ RLess(alerts[k].confidence, Rat(80, 100)))
        /\ alerts[k].type = "similar" => (RGeq(alerts[k].confidence, Rat(80, 100)) /\ RLess(alerts[k].confidence, Rat(95, 100)))
        /\ alerts[k].type = "exact" => RGeq(alerts[k].confidence, Rat(95, 100))
        /\ alerts[k].type \in {"potential", "similar", "exact"}
        /\ IF FromShortcut(alerts[k]) THEN alerts[k].confidence = One
           ELSE alerts[k].confidence = alerts[k].similarities.confidence

\* the log holds an alert of the shortcut with confidence 1 whose
\* similarities have a lower confidence, and a 'potential' alert whose
\* confidence is exactly 0.60
C25_Witness ==
    /\ \E k \in 1..Len(alerts) : FromShortcut(alerts[k]) /\ alerts[k].confidence = One /\ RLess(alerts[k].similarities.confidence, One)
    /\ \E k \in 1..Len(alerts) : alerts[k].type = "potential" /\ alerts[k].confidence = Rat(60, 100)

---------------------------------------------------------------------------
\* C26: the exact-match shortcut records its alert without the similarity
\* computation.  After a call of addDataset, for every dataset the scan
\* reached whose content hash and schema hash equal the new dataset's,
\* calculateSimilarityMetrics was not called for the pair, and the call
\* appended an 'exact' alert of confidence 1 for the pair whatever the
\* metadata of the two.
ShortcutPairs == {i \in 1..Len(last.compared) : \E k \in 1..Len(datasets) : datasets[k].id = last.compared[i] /\ HashEqual(last.dataset, datasets[k])}

C26_ShortcutSkipsMetrics_Claim ==
    last.op = "addDataset" =>
        \A i \in ShortcutPairs :
            /\ \A j \in 1..Len(last.measured) : last.measured[j] # last.compared[i]
            /\ \E k \in (Len(last.log) + 1)..Len(alerts) :
                  /\ alerts[k].type = "exact"
                  /\ alerts[k].confidence = One
                  /\ alerts[k].duplicateDataset = last.dataset
                  /\ alerts[k].originalDataset.id = last.compared[i]

---------------------------------------------------------------------------
\* C27: addDataset is all-or-nothing.  After a call of addDataset that threw
\* during its scan, the registry and the alert log are what they were when
\* the call began.
C27_AllOrNothing_Claim ==
    (last.op = "addDataset" /\ last.threw) => (datasets = last.before /\ alerts = last.log)

---------------------------------------------------------------------------
\* C28: generateMerkleRoot returns the empty string for no chunk and the
\* chunk itself for one; otherwise each level digests left + right for every
\* adjacent pair, the last chunk being paired with itself only when the
\* level has an odd number of chunks (a right-hand chunk that is present is
\* used whatever its value), until one digest remains.
PairedLevel(chunks) ==
    [p \in 1..((Len(chunks) + 1) \div 2) |->
        HexDigest(chunks[2 * p - 1] \o (IF 2 * p <= Len(chunks) THEN chunks[2 * p] ELSE chunks[2 * p - 1]))]

RECURSIVE PairedRoot(_)
PairedRoot(chunks) ==
    IF Len(chunks) = 0 THEN <<>>
    ELSE IF Len(chunks) = 1 THEN chunks[1]
    ELSE PairedRoot(PairedLevel(chunks))

C28_MerkleRoot_Claim ==
    last.op = "generateMerkleRoot" => last.ret = PairedRoot(last.arg)

---------------------------------------------------------------------------
\* C29: the token set of a dataset's title and description is never empty:
\* blank text gives the set of the empty token alone.  Two datasets with
\* blank text have semantic similarity 1, and the score of a dataset with
\* blank text against one with text is the Jaccard ratio of two token sets
\* of which the first holds the empty token.
Tokens(dataset) == SeqToSet(splitWhitespace(toLowerCase(dataset.metadata.title \o <<" ">> \o dataset.metadata.description)))

Blank(dataset) == \A i \in 1..Len(dataset.metadata.title \o dataset.metadata.description) : IsSpace((dataset.metadata.title \o dataset.metadata.description)[i])

C29_BlankTokens ==
    last.op = "calculateSemanticSimilarity" =>
        LET a == last.arg.a
            b == last.arg.b
        IN  /\ Tokens(a) # {} /\ Tokens(b) # {}
            /\ Blank(a) => Tokens(a) = {<<>>}
            /\ (Blank(a) /\ Blank(b)) => last.ret = One
            /\ (Blank(a) /\ ~Blank(b)) =>
                  /\ <<>> \in Tokens(a)
                  /\ last.ret = Rat(Cardinality(Tokens(a) \cap Tokens(b)), Cardinality(Tokens(a) \cup Tokens(b)))

\* two datasets whose texts are white space only, one of them with an empty
\* title and description, scored 1
C29_Witness ==
    /\ last.op = "calculateSemanticSimilarity"
    /\ Blank(last.arg.a) /\ Blank(last.arg.b)
    /\ last.arg.a.metadata.title = <<>> /\ last.arg.a.metadata.description = <<>>
    /\ last.arg.b.metadata.title # <<>>
    /\ last.ret = One

---------------------------------------------------------------------------
\* C30: the indexes of MetadataRepository agree with the metadata stored.
\* The full-text index maps a term to an id only if the id is stored and the
\* term is a word of its current searchable text; the facet index lists an
\* id under a facet value only if that is the id's current value; so a text
\* search for a term returns only datasets whose current text has the term.
C30_IndexConsistent_Claim ==
    /\ \A term \in DOMAIN repository.searchIndex : \A id \in repository.searchIndex[term] :
          id \in DOMAIN repository.metadata /\ term \in indexWords(repository.metadata[id])
    /\ \A facetName \in DOMAIN repository.facetIndex : \A facetValue \in DOMAIN repository.facetIndex[facetName] :
          \A id \in repository.facetIndex[facetName][facetValue] :
              id \in DOMAIN repository.metadata /\ facetsOf(repository.metadata[id])[facetName] = facetValue
    /\ \A title \in RepositoryTitles \cup RepositoryOrganizations :
          \A id \in performTextSearch(title, DOMAIN repository.metadata) :
              indexWords(repository.metadata[id]) \cap indexWords(ExtendedMetadata(id, title, <<>>)) # {}

===========================================================================
